---- MODULE Spec2Model ----
(***************************************************************************)
(* TradelineAI: the tradeline performance aggregator                       *)
(* (TradelinePerformance.record_tradeline_performance), the agent credit   *)
(* score history (AIAgent.update_credit_score) and the routes of app.py    *)
(* that feed them.                                                         *)
(*                                                                         *)
(* Money is an integer number of model units (1 unit = 100 dollars of the  *)
(* spec's scenarios).  Python floats are modelled as exact rationals       *)
(* <<numerator, denominator>>; a division by zero gives ZeroDivision.      *)
(* Dates are integer days; a nullable column holds None (<<>>) or          *)
(* Some(v) (<<v>>).                                                        *)
(***************************************************************************)
EXTENDS Integers, Sequences, FiniteSets, TLC

VARIABLES
    now,            \* datetime.utcnow(), in days (half days under DefiRepaymentSpec)
    tradelines,     \* Tradeline rows, by id
    purchases,      \* TradelinePurchase rows of the current user
    allocations,    \* AIAgentAllocation rows, id = position
    transactions,   \* Transaction rows, id = position
    repayments,     \* Repayment rows, id = position
    records,        \* TradelinePerformance rows, id = position
    agent,          \* the AIAgent row: credit_score, credit_score_updated, credit_score_history
    outcome,        \* what the last request or call returned or raised
    invocations,    \* number of update_credit_score invocations so far
    sessions,       \* per concurrent caller: the agent state its session loaded
    loans,          \* DefiLoan rows, id = position
    defi_repayments, \* DefiRepayment rows, id = position
    promo_codes     \* PromoCode rows, id = position

vars == <<now, tradelines, purchases, allocations, transactions, repayments,
          records, agent, outcome, invocations, sessions,
          loans, defi_repayments, promo_codes>>

(***************************************************************************)
(* Bounds of the model.                                                    *)
(***************************************************************************)
MaxTx == 1
MaxRep == 1
MaxAllocs == 1
MaxRecords == 1
MaxUpdates == 2
MaxTicks == 1
MaxStoredTx == 2
MaxStoredRep == 2
MaxLate == 10

(***************************************************************************)
(* Program constants.                                                      *)
(***************************************************************************)
RecentWindowDays == 30
RepaymentTermDays == 30
DefaultCreditScore == 600
RiskUtilizationWeight == 30
RiskLateCap == 40
RiskLateWeight == 10
RiskPaymentWeight == 30
AccrualDays == 30
DaysPerYear == 365
PercentBase == 100

(***************************************************************************)
(* Input domains.                                                          *)
(***************************************************************************)
\* the clock moves in steps of one day more than the recent-activity window
TickDays == RecentWindowDays + 1
None == <<>>
Some(v) == <<v>>
CreditLimits == {0 - 100, 0, 100}
InterestRates == {None, Some(12)}
QueryIds == 1 .. 4
TxAmounts == {0 - 50, 100, 150}
AllocLimits == {0, 100, 150}
ScoreValues == {600, 640}

(***************************************************************************)
(* Exact arithmetic for Python's float expressions.                        *)
(***************************************************************************)
Abs(x) == IF x < 0 THEN 0 - x ELSE x
Min(a, b) == IF a <= b THEN a ELSE b

RECURSIVE GCD(_, _)
GCD(a, b) == IF b = 0 THEN a ELSE GCD(b, a % b)

ZeroDivision == <<0, 0>>

\* n / d, as Python evaluates it: ZeroDivisionError when d = 0
Divide(n, d) ==
    IF d = 0 THEN ZeroDivision
    ELSE LET g == GCD(Abs(n), Abs(d))
             s == IF d < 0 THEN 0 - 1 ELSE 1
         IN  <<(s * n) \div g, (s * d) \div g>>

Num(n) == <<n, 1>>
RAdd(x, y) == Divide(x[1] * y[2] + y[1] * x[2], x[2] * y[2])
RSub(x, y) == Divide(x[1] * y[2] - y[1] * x[2], x[2] * y[2])
RMul(x, y) == Divide(x[1] * y[1], x[2] * y[2])
RDiv(x, y) == Divide(x[1] * y[2], x[2] * y[1])
RLe(x, y) == x[1] * y[2] <= y[1] * x[2]
RMax(x, y) == IF RLe(y, x) THEN x ELSE y

RECURSIVE SumAmounts(_)
SumAmounts(rows) ==
    IF rows = <<>> THEN 0 ELSE Head(rows).amount + SumAmounts(Tail(rows))

(***************************************************************************)
(* Repayment (models.py).                                                  *)
(***************************************************************************)
\* Repayment.is_late: the payment was made, after the due date
IsLate(r) ==
    IF r.payment_date # None THEN r.payment_date[1] > r.due_date ELSE FALSE

\* Repayment.is_missed: past the due date with no payment
IsMissed(r) ==
    IF r.payment_date = None THEN now > r.due_date ELSE FALSE

\* The Repayment class defines is_late, is_missed and update_status only:
\* r.days_overdue() on a Repayment raises AttributeError.
RepaymentHasDaysOverdue == FALSE

(***************************************************************************)
(* TradelinePerformance.record_tradeline_performance (models.py).          *)
(***************************************************************************)
\* AIAgentAllocation.query.filter_by(tradeline_id=tradeline_id, is_active=True)
AllocationIds(tradeline_id) ==
    {a \in DOMAIN allocations :
        /\ allocations[a].tradeline_id = tradeline_id
        /\ allocations[a].is_active}

\* (mutation) the status filter left out of the query
CompletedTransactions_AnyStatus(allocation_ids) ==
    SelectSeq(transactions, LAMBDA t : t.tradeline_allocation_id \in allocation_ids)

\* Transaction rows of those allocations with status 'completed'
CompletedTransactions(allocation_ids) ==
    SelectSeq(transactions,
              LAMBDA t : /\ t.tradeline_allocation_id \in allocation_ids
                         /\ t.status = "completed")

\* ... and dated within the last 30 days
RecentTransactions(allocation_ids) ==
    SelectSeq(transactions,
              LAMBDA t : /\ t.tradeline_allocation_id \in allocation_ids
                         /\ t.status = "completed"
                         /\ t.transaction_date >= now - RecentWindowDays)

\* Repayment rows of those allocations with status in ('paid', 'late')
SettledRepayments(allocation_ids) ==
    SelectSeq(repayments,
              LAMBDA r : /\ r.tradeline_allocation_id \in allocation_ids
                         /\ r.status \in {"paid", "late"})

UtilizationRate(total_balance, credit_limit) ==
    IF credit_limit > 0 THEN Divide(total_balance, credit_limit) ELSE Num(0)

AvgTransactionAmount(volume, count) ==
    IF count > 0 THEN Divide(volume, count) ELSE Num(0)

\* (mutation) the guard written as total_balance != 0
PaymentRatio_NonZero(total_repayments, total_balance) ==
    IF total_balance # 0 THEN Divide(total_repayments, total_balance) ELSE Num(1)

PaymentRatio(total_repayments, total_balance) ==
    IF total_balance > 0 THEN Divide(total_repayments, total_balance) ELSE Num(1)

\* (mutation) every repayment with status 'paid' counts as on time
OnTimeRepayments_AnyPaid(reps) ==
    SelectSeq(reps, LAMBDA r : r.status = "paid")

OnTimeRepayments(reps) ==
    SelectSeq(reps, LAMBDA r : r.status = "paid" /\ ~IsLate(r))

LateRepayments(reps) ==
    SelectSeq(reps, LAMBDA r : r.status = "late" \/ IsLate(r))

RiskUtilization(utilization_rate) ==
    RMul(utilization_rate, Num(RiskUtilizationWeight))

RiskLatePayments(repayments_late) ==
    Min(RiskLateCap, repayments_late * RiskLateWeight)

\* (mutation) the payment component without max(0, ...)
RiskPaymentRatio_Unclamped(payment_ratio) ==
    RSub(Num(RiskPaymentWeight), RMul(payment_ratio, Num(RiskPaymentWeight)))

RiskPaymentRatio(payment_ratio) ==
    RMax(Num(0), RSub(Num(RiskPaymentWeight), RMul(payment_ratio, Num(RiskPaymentWeight))))

RiskScore(utilization_rate, repayments_late, payment_ratio) ==
    RAdd(RAdd(RiskUtilization(utilization_rate), Num(RiskLatePayments(repayments_late))),
         RiskPaymentRatio(payment_ratio))

\* (total_balance * (interest_rate / 100) / 365) * 30
InterestAccrued(total_balance, interest_rate) ==
    RMul(RDiv(RMul(Num(total_balance), Divide(interest_rate, PercentBase)),
              Num(DaysPerYear)),
         Num(AccrualDays))

\* `if not tradeline: return None`
TradelineMissing(tradeline_id) == tradeline_id \notin DOMAIN tradelines

\* (mutation) the early return on an empty allocation list left out
NoAllocations_Never(allocation_ids) == FALSE

\* `if not allocation_ids: return None`
NoAllocations(allocation_ids) == allocation_ids = {}

\* The metrics dictionary, in the order the code fills it.
Metrics(tradeline_id) ==
    LET tradeline == tradelines[tradeline_id]
        ids == AllocationIds(tradeline_id)
        txs == CompletedTransactions(ids)
        recent == RecentTransactions(ids)
        reps == SettledRepayments(ids)
        total_balance == SumAmounts(txs)
        utilization_rate == UtilizationRate(total_balance, tradeline.credit_limit)
        volume == SumAmounts(recent)
        total_repayments == SumAmounts(reps)
        repayments_late == Len(LateRepayments(reps))
        payment_ratio == PaymentRatio(total_repayments, total_balance)
    IN  [tradeline_id |-> tradeline_id,
         record_date |-> now,
         current_balance |-> total_balance,
         available_credit |-> tradeline.credit_limit - total_balance,
         utilization_rate |-> utilization_rate,
         transaction_count |-> Len(recent),
         transaction_volume |-> volume,
         avg_transaction_amount |-> AvgTransactionAmount(volume, Len(recent)),
         total_repayments |-> total_repayments,
         repayments_on_time |-> Len(OnTimeRepayments(reps)),
         repayments_late |-> repayments_late,
         payment_ratio |-> payment_ratio,
         risk_score |-> RiskScore(utilization_rate, repayments_late, payment_ratio),
         days_delinquent |-> 0,
         interest_accrued |->
             IF tradeline.interest_rate = None THEN Num(0)
             ELSE InterestAccrued(total_balance, tradeline.interest_rate[1])]

\* What the call returns or raises, in the order the code reaches each point:
\* the two early returns, the three divisions, r.days_overdue() on the late
\* repayments, tradeline.interest_rate / 100, then the record.
PerformanceResult(tradeline_id) ==
    IF TradelineMissing(tradeline_id) THEN "None"
    ELSE IF NoAllocations(AllocationIds(tradeline_id)) THEN "None"
    ELSE IF tradeline_id \notin DOMAIN tradelines THEN "AttributeError"
    ELSE LET m == Metrics(tradeline_id)
             reps == SettledRepayments(AllocationIds(tradeline_id))
         IN  IF ZeroDivision \in {m.utilization_rate, m.avg_transaction_amount,
                                  m.payment_ratio}
                 THEN "ZeroDivisionError"
             ELSE IF LateRepayments(reps) # <<>> /\ ~RepaymentHasDaysOverdue
                 THEN "AttributeError"
             ELSE IF tradelines[tradeline_id].interest_rate = None
                 THEN "TypeError"
             ELSE "record"

\* (mutation) the new record is added to the session twice
RecordTradelinePerformance_AddsTwice(tradeline_id) ==
    /\ Len(records) < MaxRecords
    /\ LET result == PerformanceResult(tradeline_id)
       IN  /\ outcome' = [op |-> "record_tradeline_performance",
                          arg |-> tradeline_id, result |-> result]
           /\ records' = IF result = "record"
                            THEN records \o <<Metrics(tradeline_id), Metrics(tradeline_id)>>
                            ELSE records
    /\ UNCHANGED <<now, tradelines, purchases, allocations, transactions,
                   repayments, agent, invocations, sessions,
                   loans, defi_repayments, promo_codes>>

RecordTradelinePerformance(tradeline_id) ==
    /\ Len(records) < MaxRecords
    /\ LET result == PerformanceResult(tradeline_id)
       IN  /\ outcome' = [op |-> "record_tradeline_performance",
                          arg |-> tradeline_id, result |-> result]
           /\ records' = IF result = "record"
                            THEN Append(records, Metrics(tradeline_id))
                            ELSE records
    /\ UNCHANGED <<now, tradelines, purchases, allocations, transactions,
                   repayments, agent, invocations, sessions,
                   loans, defi_repayments, promo_codes>>

Tick ==
    /\ now + TickDays <= MaxTicks * TickDays
    /\ now' = now + TickDays
    /\ UNCHANGED <<tradelines, purchases, allocations, transactions, repayments,
                   records, agent, outcome, invocations, sessions,
                   loans, defi_repayments, promo_codes>>

(***************************************************************************)
(* The store the aggregator reads, drawn from bounded sets of rows.        *)
(***************************************************************************)
RECURSIVE SetToSeq(_)
SetToSeq(S) ==
    IF S = {} THEN <<>>
    ELSE LET x == CHOOSE y \in S : TRUE IN <<x>> \o SetToSeq(S \ {x})

Subsets(S, n) == {T \in SUBSET S : Cardinality(T) <= n}

Allocation(tradeline_id, credit_limit, is_active) ==
    [agent_id |-> 1, tradeline_id |-> tradeline_id,
     credit_limit |-> credit_limit, is_active |-> is_active]

Transaction(allocation_id, amount, status, balance_after) ==
    [agent_id |-> 1, tradeline_allocation_id |-> allocation_id,
     amount |-> amount, transaction_date |-> now, status |-> status,
     balance_after |-> balance_after]

Repayment(allocation_id, amount, due_date, payment_date, status) ==
    [agent_id |-> 1, tradeline_allocation_id |-> allocation_id,
     amount |-> amount, due_date |-> due_date, payment_date |-> payment_date,
     status |-> status]

\* Transaction rows: every status on allocation 1, completed ones on both
TxCatalog ==
    {[agent_id |-> 1, tradeline_allocation_id |-> a, amount |-> m,
      transaction_date |-> 0, status |-> "completed", balance_after |-> None] :
        a \in {1, 2}, m \in {0 - 50, 25}}
    \cup
    {[agent_id |-> 1, tradeline_allocation_id |-> 1, amount |-> 25,
      transaction_date |-> 0, status |-> st, balance_after |-> None] :
        st \in {"pending", "declined"}}

\* Repayment rows: scheduled, missed, paid in time, paid after the due date
\* (process_repayment keeps status 'paid'), and late
RepCatalog ==
    {Repayment(1, 25, 62, None, "scheduled"),
     Repayment(1, 25, 0, None, "missed"),
     Repayment(1, 25, 31, Some(0), "paid"),
     Repayment(1, 50, 31, Some(0), "paid"),
     Repayment(2, 25, 31, Some(0), "paid"),
     Repayment(1, 25, 0, Some(31), "paid"),
     Repayment(1, 25, 0, Some(31), "late")}

NewAgent ==
    [name |-> "agent", is_active |-> TRUE,
     credit_score |-> DefaultCreditScore, credit_score_updated |-> 0,
     credit_score_history |-> None]

Idle == [op |-> "none", arg |-> 0, result |-> "none"]

Callers == {1, 2}
NoScoreData == [score |-> 0, inv |-> 0, route |-> "none"]
IdleSession == [pc |-> "idle", row |-> NewAgent, seen |-> 0, score_data |-> NoScoreData]

PerfInit ==
    /\ now = 0
    /\ \E cl \in CreditLimits, ir \in InterestRates :
          tradelines = [t \in 1 .. 3 |->
                          IF t = 1 THEN [credit_limit |-> cl, interest_rate |-> ir]
                          ELSE [credit_limit |-> 100, interest_rate |-> Some(12)]]
    /\ purchases = <<>>
    /\ \E second \in BOOLEAN :
          allocations = <<Allocation(1, 100, TRUE), Allocation(1, 100, second),
                          Allocation(2, 100, FALSE)>>
    /\ \E T \in Subsets(TxCatalog, MaxStoredTx) : transactions = SetToSeq(T)
    /\ \E R \in Subsets(RepCatalog, MaxStoredRep) : repayments = SetToSeq(R)
    /\ records = <<>>
    /\ agent = NewAgent
    /\ outcome = Idle
    /\ invocations = 0
    /\ sessions = [p \in Callers |-> IdleSession]
    /\ loans = <<>>
    /\ defi_repayments = <<>>
    /\ promo_codes = <<>>

PerfNext ==
    \/ \E tradeline_id \in QueryIds : RecordTradelinePerformance(tradeline_id)
    \/ Tick

PerfSpec == PerfInit /\ [][PerfNext]_vars

(***************************************************************************)
(* AIAgent.update_credit_score (models.py).  modules.agent_credit is not   *)
(* among the sources: the score it computes is any of ScoreValues, and its *)
(* history tracker appends the score data to the list it is given.         *)
(***************************************************************************)
\* The text of the credit_score_history column: valid says whether
\* json.loads accepts it, kind what it holds, doc the entries of a list and
\* n the number, the length of the string or the number of keys of the object.
JsonText(kind, doc, n) == [valid |-> TRUE, kind |-> kind, doc |-> doc, n |-> n]

\* text json.loads rejects with JSONDecodeError
MalformedText == [valid |-> FALSE, kind |-> "text", doc |-> <<>>, n |-> 0]

\* the empty string: falsy, json.loads is not called on it
EmptyText == [valid |-> FALSE, kind |-> "empty", doc |-> <<>>, n |-> 0]

\* json.dumps(history): the text stored in credit_score_history
JsonDumps(history) == JsonText("list", history, 0)

\* (mutation) the stored history is never read back
LoadHistory_Reset(column) == <<>>

\* json.loads(self.credit_score_history) if self.credit_score_history else [],
\* with JSONDecodeError caught: malformed text gives []
LoadHistory(column) ==
    IF column = None THEN <<>>
    ELSE IF column[1].valid THEN column[1].doc
    ELSE <<>>

\* AgentCreditScoring.track_agent_score_history(agent_id, score_data, history)
TrackAgentScoreHistory(score_data, history) == Append(history, score_data)

\* the score data of one invocation; inv and route record which invocation
\* made it
ScoreData(score, route) ==
    [score |-> score, inv |-> invocations + 1, route |-> route]

\* (mutation) the history is extended but credit_score is not assigned
UpdatedAgent_ScoreNotWritten(row, score_data) ==
    [row EXCEPT
        !.credit_score_updated = now,
        !.credit_score_history =
            Some(JsonDumps(TrackAgentScoreHistory(score_data,
                                                  LoadHistory(row.credit_score_history))))]

\* (mutation) the new score data is put in front of the loaded history
UpdatedAgent_NewestFirst(row, score_data) ==
    [row EXCEPT
        !.credit_score = score_data.score,
        !.credit_score_updated = now,
        !.credit_score_history =
            Some(JsonDumps(<<score_data>> \o LoadHistory(row.credit_score_history)))]

\* the agent row after update_credit_score has run on `row`
UpdatedAgent(row, score_data) ==
    [row EXCEPT
        !.credit_score = score_data.score,
        !.credit_score_updated = now,
        !.credit_score_history =
            Some(JsonDumps(TrackAgentScoreHistory(score_data,
                                                  LoadHistory(row.credit_score_history))))]

\* update_credit_score called from `route`, as part of that route's action
UpdateCreditScore(route) ==
    /\ invocations < MaxUpdates
    /\ \E score \in ScoreValues : agent' = UpdatedAgent(agent, ScoreData(score, route))
    /\ invocations' = invocations + 1

(***************************************************************************)
(* Routes of app.py, one request at a time.                                *)
(***************************************************************************)
\* the response of a route: success, or the error it flashes or returns
Respond(result) == outcome' = [op |-> "request", arg |-> 0, result |-> result]

\* TradelinePurchase.query.filter_by(tradeline_id, purchaser_id, is_active).first()
ActivePurchases(tradeline_id) ==
    SelectSeq(purchases, LAMBDA p : p.tradeline_id = tradeline_id /\ p.is_active)

AllocateTradeline(tradeline_id, credit_limit) ==
    /\ Len(allocations) < MaxAllocs
    /\ LET found == ActivePurchases(tradeline_id)
       IN  IF found = <<>> THEN
               /\ Respond("error")
               /\ UNCHANGED allocations
           ELSE IF credit_limit <= 0 \/ credit_limit > found[1].allocated_limit THEN
               /\ Respond("error")
               /\ UNCHANGED allocations
           ELSE
               /\ allocations' = Append(allocations,
                                        Allocation(tradeline_id, credit_limit, TRUE))
               /\ Respond("ok")
    /\ UNCHANGED <<now, tradelines, purchases, transactions, repayments, records,
                   agent, invocations, sessions,
                   loans, defi_repayments, promo_codes>>

\* (mutation) the status of the repayment is not checked
ProcessRepayment_AnyStatus(repayment_id) ==
    /\ repayment_id \in DOMAIN repayments
    /\ repayments' = [repayments EXCEPT ![repayment_id].status = "paid",
                                        ![repayment_id].payment_date = Some(now)]
    /\ UpdateCreditScore("process_repayment")
    /\ Respond("ok")
    /\ UNCHANGED <<now, tradelines, purchases, allocations, transactions, records,
                   sessions,
                   loans, defi_repayments, promo_codes>>

ProcessRepayment(repayment_id) ==
    /\ repayment_id \in DOMAIN repayments
    /\ IF repayments[repayment_id].status # "scheduled" THEN
           /\ Respond("error")
           /\ UNCHANGED <<repayments, agent, invocations>>
       ELSE
           /\ repayments' = [repayments EXCEPT ![repayment_id].status = "paid",
                                               ![repayment_id].payment_date = Some(now)]
           /\ UpdateCreditScore("process_repayment")
           /\ Respond("ok")
    /\ UNCHANGED <<now, tradelines, purchases, allocations, transactions, records,
                   sessions,
                   loans, defi_repayments, promo_codes>>

\* (mutation) the new balance does not start from the latest balance
CurrentBalance_Zero(allocation_id) == 0

\* Transaction.query.filter_by(tradeline_allocation_id).order_by(date desc).first()
LatestTransaction(allocation_id) ==
    LET own == SelectSeq(transactions,
                         LAMBDA t : t.tradeline_allocation_id = allocation_id)
    IN  IF own = <<>> THEN None ELSE Some(own[Len(own)])

CurrentBalance(allocation_id) ==
    LET latest == LatestTransaction(allocation_id)
    IN  IF latest # None /\ latest[1].balance_after # None
            THEN latest[1].balance_after[1]
            ELSE 0

\* (mutation) only the existence of the allocation is checked
InvalidAllocation_ExistsOnly(allocation_id) ==
    allocation_id \notin DOMAIN allocations

\* not allocation or allocation.agent_id != agent.id (the agent has id 1)
InvalidAllocation(allocation_id) ==
    \/ allocation_id \notin DOMAIN allocations
    \/ allocations[allocation_id].agent_id # 1

\* agent_transaction, with the sizes the tables may grow to
AgentTransactionUpTo(allocation_id, amount, max_tx, max_rep) ==
    IF InvalidAllocation(allocation_id) THEN
        /\ Respond("error")
        /\ UNCHANGED <<now, tradelines, purchases, allocations, transactions,
                       repayments, records, agent, invocations, sessions,
                   loans, defi_repayments, promo_codes>>
    ELSE IF amount > allocations[allocation_id].credit_limit THEN
        /\ Respond("error")
        /\ UNCHANGED <<now, tradelines, purchases, allocations, transactions,
                       repayments, records, agent, invocations, sessions,
                   loans, defi_repayments, promo_codes>>
    ELSE
        /\ Len(transactions) < max_tx
        /\ Len(repayments) < max_rep
        /\ transactions' =
               Append(transactions,
                      Transaction(allocation_id, amount, "completed",
                                  Some(CurrentBalance(allocation_id) + amount)))
        /\ repayments' =
               Append(repayments,
                      Repayment(allocation_id, amount, now + RepaymentTermDays,
                                None, "scheduled"))
        /\ UpdateCreditScore("agent_transaction")
        /\ Respond("ok")
        /\ UNCHANGED <<now, tradelines, purchases, allocations, records, sessions,
                   loans, defi_repayments, promo_codes>>

AgentTransaction(allocation_id, amount) ==
    AgentTransactionUpTo(allocation_id, amount, MaxTx, MaxRep)

\* agent_detail with ?refresh_score
RefreshScore ==
    /\ UpdateCreditScore("agent_detail")
    /\ Respond("ok")
    /\ UNCHANGED <<now, tradelines, purchases, allocations, transactions,
                   repayments, records, sessions,
                   loans, defi_repayments, promo_codes>>

\* a history entry stored before the model starts
StoredEntry ==
    [score |-> DefaultCreditScore, inv |-> 0, route |-> "stored"]

\* what the credit_score_history column can hold at the start
StoredHistories ==
    {None, Some(JsonDumps(<<StoredEntry>>)), Some(MalformedText)}

Init ==
    /\ now = 0
    /\ tradelines = <<[credit_limit |-> 100, interest_rate |-> Some(12)]>>
    /\ purchases = <<[tradeline_id |-> 1, purchaser_id |-> 1,
                      allocated_limit |-> 100, is_active |-> TRUE]>>
    /\ allocations = <<>>
    /\ transactions = <<>>
    /\ repayments = <<>>
    /\ records = <<>>
    /\ \E column \in StoredHistories :
          agent = [NewAgent EXCEPT !.credit_score_history = column]
    /\ outcome = Idle
    /\ invocations = 0
    /\ sessions = [p \in Callers |-> IdleSession]
    /\ loans = <<>>
    /\ defi_repayments = <<>>
    /\ promo_codes = <<>>

Next ==
    \/ Tick
    \/ \E tradeline_id \in 1 .. 2, credit_limit \in AllocLimits :
          AllocateTradeline(tradeline_id, credit_limit)
    \/ \E repayment_id \in 1 .. MaxRep : ProcessRepayment(repayment_id)
    \/ \E allocation_id \in 1 .. MaxAllocs + 1, amount \in TxAmounts :
          AgentTransaction(allocation_id, amount)
    \/ RefreshScore
    \/ \E tradeline_id \in 1 .. 2 : RecordTradelinePerformance(tradeline_id)

Spec == Init /\ [][Next]_vars

(***************************************************************************)
(* Two requests for the same agent at once.  Each request has its own      *)
(* database session: it loads the agent row (AIAgent.query.get_or_404),    *)
(* runs update_credit_score on the row it loaded and commits.  Nothing     *)
(* locks the row or checks its version in between.                         *)
(***************************************************************************)
CallerRoute(p) == IF p = 1 THEN "caller 1" ELSE "caller 2"

\* (mutation) the row is read again from the database when the score is written
SessionRow_Current(p) == agent

\* the row update_credit_score reads self.credit_score_history from: the
\* instance the caller's session loaded
SessionRow(p) == sessions[p].row

LoadAgent(p) ==
    /\ sessions[p].pc # "loaded"
    /\ invocations < MaxUpdates
    /\ sessions' = [sessions EXCEPT ![p] = [pc |-> "loaded", row |-> agent,
                                            seen |-> invocations,
                                            score_data |-> NoScoreData]]
    /\ UNCHANGED <<now, tradelines, purchases, allocations, transactions,
                   repayments, records, agent, outcome, invocations,
                   loans, defi_repayments, promo_codes>>

CommitScore(p) ==
    /\ sessions[p].pc = "loaded"
    /\ \E score \in ScoreValues :
          LET score_data == ScoreData(score, CallerRoute(p))
          IN  /\ agent' = UpdatedAgent(SessionRow(p), score_data)
              /\ sessions' = [sessions EXCEPT ![p].pc = "done",
                                              ![p].score_data = score_data]
    /\ invocations' = invocations + 1
    /\ UNCHANGED <<now, tradelines, purchases, allocations, transactions,
                   repayments, records, outcome,
                   loans, defi_repayments, promo_codes>>

RaceInit ==
    /\ now = 0
    /\ tradelines = <<[credit_limit |-> 100, interest_rate |-> Some(12)]>>
    /\ purchases = <<>>
    /\ allocations = <<>>
    /\ transactions = <<>>
    /\ repayments = <<>>
    /\ records = <<>>
    /\ \E column \in StoredHistories :
          agent = [NewAgent EXCEPT !.credit_score_history = column]
    /\ outcome = Idle
    /\ invocations = 0
    /\ sessions = [p \in Callers |-> IdleSession]
    /\ loans = <<>>
    /\ defi_repayments = <<>>
    /\ promo_codes = <<>>

RaceNext ==
    \/ \E p \in Callers : LoadAgent(p)
    \/ \E p \in Callers : CommitScore(p)
    \/ Tick

RaceSpec == RaceInit /\ [][RaceNext]_vars

(***************************************************************************)
(* One request at a time on an agent whose credit_score_history column can *)
(* hold anything a Text column holds.  update_credit_score changes the row *)
(* in the request's session (sessions[1].row); the row in the database     *)
(* (agent) changes when the caller commits.                                *)
(***************************************************************************)
\* an entry stored before StoredEntry
EarlierEntry ==
    [score |-> DefaultCreditScore + 40, inv |-> 0 - 1, route |-> "stored"]

\* what the column can hold: NULL, '', text that is not JSON, a JSON list of
\* 0, 1 or 2 entries, and JSON that is not a list (a number, a string, an
\* object, null)
StoredColumns ==
    StoredHistories \cup
    {Some(EmptyText),
     Some(JsonDumps(<<>>)),
     Some(JsonDumps(<<EarlierEntry, StoredEntry>>)),
     Some(JsonText("number", <<>>, 0)), Some(JsonText("number", <<>>, 5)),
     Some(JsonText("string", <<>>, 0)), Some(JsonText("string", <<>>, 3)),
     Some(JsonText("object", <<>>, 0)), Some(JsonText("object", <<>>, 1)),
     Some(JsonText("object", <<>>, 2)),
     Some(JsonText("null", <<>>, 0))}

\* a Python list
PyList(doc) == [kind |-> "list", doc |-> doc, n |-> 0]

\* (mutation) JSONDecodeError is not caught: text that is not JSON is not
\* replaced by []
LoadedValue_NotCaught(column) ==
    IF column = None THEN PyList(<<>>)
    ELSE IF column[1].kind = "empty" THEN PyList(<<>>)
    ELSE [kind |-> column[1].kind, doc |-> column[1].doc, n |-> column[1].n]

\* `history` after the try block: [] for NULL, '' and text that is not JSON,
\* otherwise whatever json.loads returns
LoadedValue(column) ==
    IF column = None THEN PyList(<<>>)
    ELSE IF column[1].kind = "empty" THEN PyList(<<>>)
    ELSE IF ~column[1].valid THEN PyList(<<>>)
    ELSE [kind |-> column[1].kind, doc |-> column[1].doc, n |-> column[1].n]

\* `not history`
Falsy(value) ==
    \/ value.kind = "null"
    \/ value.kind = "list" /\ value.doc = <<>>
    \/ value.kind \in {"number", "string", "object"} /\ value.n = 0

\* len(history) is defined
HasLen(value) == value.kind \in {"list", "string", "object"}

\* len(history)
PyLen(value) == IF value.kind = "list" THEN Len(value.doc) ELSE value.n

\* (mutation) one entry is enough for a trend
TrendResult_OneEntry(column) ==
    LET history == LoadedValue(column)
    IN  IF Falsy(history) THEN "None"
        ELSE IF ~HasLen(history) THEN "TypeError"
        ELSE IF PyLen(history) < 1 THEN "None"
        ELSE "trend"

\* AIAgent.get_credit_score_trend: None, the result of analyze_score_trend
\* ("trend"), or the exception len() raises
TrendResult(column) ==
    LET history == LoadedValue(column)
    IN  IF Falsy(history) THEN "None"
        ELSE IF ~HasLen(history) THEN "TypeError"
        ELSE IF PyLen(history) < 2 THEN "None"
        ELSE "trend"

GetCreditScoreTrend ==
    /\ sessions[1].pc # "updated"
    /\ outcome' = [op |-> "get_credit_score_trend", arg |-> 0,
                   result |-> TrendResult(agent.credit_score_history)]
    /\ UNCHANGED <<now, tradelines, purchases, allocations, transactions,
                   repayments, records, agent, invocations, sessions,
                   loans, defi_repayments, promo_codes>>

\* track_agent_score_history given a history that is not a list: it returns
\* a list holding the new entry, or raises
NonListTracking == {"rebuilt", "raise"}

\* the row in the session when track_agent_score_history raises: score and
\* time are already assigned, the history is not
PartlyUpdatedAgent(row, score_data) ==
    [row EXCEPT !.credit_score = score_data.score,
                !.credit_score_updated = now]

\* update_credit_score on the agent the request loaded; nothing is committed
CallUpdateCreditScore ==
    /\ sessions[1].pc # "updated"
    /\ invocations < MaxUpdates
    /\ \E score \in ScoreValues, tracking \in NonListTracking :
          LET score_data == ScoreData(score, "call")
              history == LoadedValue(agent.credit_score_history)
              fresh == [agent EXCEPT !.credit_score_history = None]
          IN  IF history.kind = "list" THEN
                  /\ sessions' = [sessions EXCEPT ![1] =
                                     [pc |-> "updated",
                                      row |-> UpdatedAgent(agent, score_data),
                                      seen |-> invocations,
                                      score_data |-> score_data]]
                  /\ outcome' = [op |-> "update_credit_score", arg |-> 0,
                                 result |-> "score_data"]
              ELSE IF tracking = "rebuilt" THEN
                  /\ sessions' = [sessions EXCEPT ![1] =
                                     [pc |-> "updated",
                                      row |-> UpdatedAgent(fresh, score_data),
                                      seen |-> invocations,
                                      score_data |-> score_data]]
                  /\ outcome' = [op |-> "update_credit_score", arg |-> 0,
                                 result |-> "score_data"]
              ELSE
                  /\ sessions' = [sessions EXCEPT ![1] =
                                     [pc |-> "raised",
                                      row |-> PartlyUpdatedAgent(agent, score_data),
                                      seen |-> invocations,
                                      score_data |-> score_data]]
                  /\ outcome' = [op |-> "update_credit_score", arg |-> 0,
                                 result |-> "AttributeError"]
    /\ invocations' = invocations + 1
    /\ UNCHANGED <<now, tradelines, purchases, allocations, transactions,
                   repayments, records, agent,
                   loans, defi_repayments, promo_codes>>

\* db.session.commit() by the caller of update_credit_score
CommitSession ==
    /\ sessions[1].pc = "updated"
    /\ agent' = sessions[1].row
    /\ sessions' = [sessions EXCEPT ![1].pc = "done"]
    /\ UNCHANGED <<now, tradelines, purchases, allocations, transactions,
                   repayments, records, outcome, invocations,
                   loans, defi_repayments, promo_codes>>

HistoryInit ==
    /\ now = 0
    /\ tradelines = <<[credit_limit |-> 100, interest_rate |-> Some(12)]>>
    /\ purchases = <<>>
    /\ allocations = <<Allocation(1, 100, TRUE)>>
    /\ transactions = <<>>
    /\ repayments = <<>>
    /\ records = <<>>
    /\ \E column \in StoredColumns :
          agent = [NewAgent EXCEPT !.credit_score_history = column]
    /\ outcome = Idle
    /\ invocations = 0
    /\ sessions = [p \in Callers |-> IdleSession]
    /\ loans = <<>>
    /\ defi_repayments = <<>>
    /\ promo_codes = <<>>

HistoryNext ==
    \/ CallUpdateCreditScore
    \/ CommitSession
    \/ GetCreditScoreTrend
    \/ Tick

HistorySpec == HistoryInit /\ [][HistoryNext]_vars

(***************************************************************************)
(* The consumers of the risk classifier (app.py): the reports page and the *)
(* generated reports.  ml_analytics.predict_tradeline_risk is not part of  *)
(* the sources; it is modelled by its contract: an assessment, or on       *)
(* failure the fallback, given in full or left to the consumer's defaults. *)
(***************************************************************************)
MaxReportTradelines == 2
FallbackRiskScore == 50

ReportLimits == {0, 3, 100}
AvailableLimits == {0, 1}
ReportTypes == {"tradeline_performance", "summary"}

Assessments ==
    {[risk_score |-> 20, risk_category |-> "Low", recommendations |-> <<>>],
     [risk_score |-> 80, risk_category |-> "High",
      recommendations |-> <<"reduce utilization">>]}

FallbackResult ==
    [risk_score |-> FallbackRiskScore, risk_category |-> "Medium",
     recommendations |-> <<>>]

\* what the classifier hands back when it fails
FailureResults == {FallbackResult, [error |-> "prediction failed"]}

\* ml_analytics.predict_tradeline_risk(attributes): the possible results
PredictTradelineRisk ==
    {[failed |-> FALSE, data |-> a] : a \in Assessments}
        \cup {[failed |-> TRUE, data |-> f] : f \in FailureResults}

\* dict.get(key, default)
DictGet(d, key, default) == IF key \in DOMAIN d THEN d[key] ELSE default

\* round(x, 2) of a rational x: the nearest multiple of 1/100, ties to even
Round2(x) ==
    IF x = ZeroDivision THEN ZeroDivision
    ELSE LET n == x[1] * 100
             d == x[2]
             fl == n \div d
             twice == 2 * (n - fl * d)
             r == IF twice > d THEN fl + 1
                  ELSE IF twice < d THEN fl
                  ELSE IF fl % 2 = 0 THEN fl ELSE fl + 1
         IN  Divide(r, 100)

\* (credit_limit - available_limit) / credit_limit * 100, rounded
Utilization(t) ==
    LET share == Divide(t.credit_limit - t.available_limit, t.credit_limit)
    IN  IF share = ZeroDivision THEN ZeroDivision
        ELSE Round2(RMul(share, Num(100)))

\* the tradelines the loop gets through before a division raises
Reached ==
    {i \in DOMAIN tradelines :
        \A j \in 1 .. i : Utilization(tradelines[j]) # ZeroDivision}

DivisionRaises ==
    \E i \in DOMAIN tradelines : Utilization(tradelines[i]) = ZeroDivision

RECURSIVE SumField(_, _)
SumField(rows, field) ==
    IF rows = <<>> THEN 0 ELSE Head(rows)[field] + SumField(Tail(rows), field)

RECURSIVE SumScores(_)
SumScores(scores) ==
    IF scores = <<>> THEN 0 ELSE Head(scores).risk_score + SumScores(Tail(scores))

\* GET /reports: utilization and risk of each of the user's tradelines
Reports ==
    /\ \E risk \in [DOMAIN tradelines -> PredictTradelineRisk] :
          outcome' =
              [op |-> "reports", arg |-> "page",
               result |-> IF DivisionRaises THEN "ZeroDivisionError" ELSE "ok",
               risk_data |-> [i \in Reached |-> risk[i]],
               data |-> IF DivisionRaises THEN <<>>
                        ELSE [i \in DOMAIN tradelines |->
                                [utilization |-> Utilization(tradelines[i]),
                                 risk_score |-> DictGet(risk[i].data, "risk_score",
                                                        FallbackRiskScore),
                                 risk_category |-> DictGet(risk[i].data,
                                                           "risk_category", "Medium")]],
               summary |-> None]
    /\ UNCHANGED <<now, tradelines, purchases, allocations, transactions,
                   repayments, records, agent, invocations, sessions,
                   loans, defi_repayments, promo_codes>>

\* the tradeline_performance branch of generate_report
TradelinePerformanceReport(risk) ==
    [op |-> "generate_report", arg |-> "tradeline_performance",
     result |-> IF DivisionRaises THEN "ZeroDivisionError" ELSE "ok",
     risk_data |-> [i \in Reached |-> risk[i]],
     data |-> IF DivisionRaises THEN <<>>
              ELSE [i \in DOMAIN tradelines |->
                      [id |-> i,
                       credit_limit |-> tradelines[i].credit_limit,
                       available_limit |-> tradelines[i].available_limit,
                       utilization |-> Utilization(tradelines[i]),
                       risk_score |-> DictGet(risk[i].data, "risk_score",
                                              FallbackRiskScore),
                       risk_category |-> DictGet(risk[i].data, "risk_category",
                                                 "Medium"),
                       recommendations |-> DictGet(risk[i].data, "recommendations",
                                                   <<>>)]],
     summary |-> None]

\* the summary branch of generate_report
SummaryReport(risk) ==
    LET risk_scores == [i \in DOMAIN tradelines |->
                          [risk_score |-> DictGet(risk[i].data, "risk_score",
                                                  FallbackRiskScore)]]
        total_credit_limit == SumField(tradelines, "credit_limit")
        total_available_credit == SumField(tradelines, "available_limit")
    IN  [op |-> "generate_report", arg |-> "summary",
         result |-> "ok",
         risk_data |-> risk,
         data |-> risk_scores,
         summary |-> Some(
             [generated_at |-> now,
              total_tradelines |-> Len(tradelines),
              credit_utilization |->
                  IF total_credit_limit > 0
                  THEN Round2(RMul(Divide(total_credit_limit - total_available_credit,
                                          total_credit_limit), Num(100)))
                  ELSE Num(0),
              avg_risk_score |->
                  Round2(IF risk_scores # <<>>
                         THEN Divide(SumScores(risk_scores), Len(risk_scores))
                         ELSE Num(FallbackRiskScore))])]

\* POST /api/generate-report
GenerateReport(report_type, token_valid) ==
    /\ \E risk \in [DOMAIN tradelines -> PredictTradelineRisk] :
          outcome' =
              IF ~token_valid
              THEN [op |-> "generate_report", arg |-> report_type, result |-> "403",
                    risk_data |-> <<>>, data |-> <<>>, summary |-> None]
              ELSE IF report_type = "tradeline_performance"
                   THEN TradelinePerformanceReport(risk)
                   ELSE SummaryReport(risk)
    /\ UNCHANGED <<now, tradelines, purchases, allocations, transactions,
                   repayments, records, agent, invocations, sessions,
                   loans, defi_repayments, promo_codes>>

ReportInit ==
    /\ now = 0
    /\ \E n \in 1 .. MaxReportTradelines :
          \E rows \in [1 .. n -> [credit_limit : ReportLimits,
                                 available_limit : AvailableLimits,
                                 interest_rate : {Some(12)}]] :
              tradelines = rows
    /\ purchases = <<>>
    /\ allocations = <<>>
    /\ transactions = <<>>
    /\ repayments = <<>>
    /\ records = <<>>
    /\ agent = NewAgent
    /\ outcome = Idle
    /\ invocations = 0
    /\ sessions = [p \in Callers |-> IdleSession]
    /\ loans = <<>>
    /\ defi_repayments = <<>>
    /\ promo_codes = <<>>

ReportNext ==
    \/ Reports
    \/ \E report_type \in ReportTypes, token_valid \in BOOLEAN :
          GenerateReport(report_type, token_valid)
    \/ Tick

ReportSpec == ReportInit /\ [][ReportNext]_vars

(***************************************************************************)
(* The routes that create and change an allocation (app.py).               *)
(***************************************************************************)
\* request.form.get('credit_limit'): absent, or the number typed in
FormLimits == {None, Some(0 - 50), Some(0), Some(60), Some(150)}
PurchasedLimits == {100, 150}

\* POST /ai-agents/1/allocation/<allocation_id>/update
UpdateAllocation(allocation_id, form_valid, credit_limit, is_active) ==
    /\ IF ~form_valid THEN
           /\ Respond("redirect")
           /\ UNCHANGED allocations
       ELSE IF allocation_id \notin DOMAIN allocations THEN
           /\ Respond("404")
           /\ UNCHANGED allocations
       ELSE IF credit_limit = None THEN
           \* float(None)
           /\ Respond("TypeError")
           /\ UNCHANGED allocations
       ELSE
           /\ allocations' = [allocations EXCEPT
                                 ![allocation_id].credit_limit = credit_limit[1],
                                 ![allocation_id].is_active = is_active]
           /\ Respond("ok")
    /\ UNCHANGED <<now, tradelines, purchases, transactions, repayments, records,
                   agent, invocations, sessions,
                   loans, defi_repayments, promo_codes>>

\* POST /ai-agents/1/allocation/<allocation_id>/toggle
ToggleAllocationStatus(allocation_id, form_valid) ==
    /\ IF ~form_valid THEN
           /\ Respond("redirect")
           /\ UNCHANGED allocations
       ELSE IF allocation_id \notin DOMAIN allocations THEN
           /\ Respond("404")
           /\ UNCHANGED allocations
       ELSE
           /\ allocations' = [allocations EXCEPT
                                 ![allocation_id].is_active =
                                     ~allocations[allocation_id].is_active]
           /\ Respond("ok")
    /\ UNCHANGED <<now, tradelines, purchases, transactions, repayments, records,
                   agent, invocations, sessions,
                   loans, defi_repayments, promo_codes>>

\* POST /ai-agents/1/allocate with the form's credit_limit (default 0)
AllocateFromForm(tradeline_id, credit_limit) ==
    AllocateTradeline(tradeline_id,
                      IF credit_limit = None THEN 0 ELSE credit_limit[1])

AllocInit ==
    /\ now = 0
    /\ tradelines = <<[credit_limit |-> 100, interest_rate |-> Some(12)]>>
    /\ \E allocated_limit \in PurchasedLimits, is_active \in BOOLEAN :
          purchases = <<[tradeline_id |-> 1, purchaser_id |-> 1,
                         allocated_limit |-> allocated_limit,
                         is_active |-> is_active]>>
    /\ allocations = <<>>
    /\ transactions = <<>>
    /\ repayments = <<>>
    /\ records = <<>>
    /\ agent = NewAgent
    /\ outcome = Idle
    /\ invocations = 0
    /\ sessions = [p \in Callers |-> IdleSession]
    /\ loans = <<>>
    /\ defi_repayments = <<>>
    /\ promo_codes = <<>>

AllocNext ==
    \/ \E tradeline_id \in 1 .. 2, credit_limit \in FormLimits :
          AllocateFromForm(tradeline_id, credit_limit)
    \/ \E allocation_id \in 1 .. MaxAllocs + 1, form_valid \in BOOLEAN,
          credit_limit \in FormLimits, is_active \in BOOLEAN :
          UpdateAllocation(allocation_id, form_valid, credit_limit, is_active)
    \/ \E allocation_id \in 1 .. MaxAllocs + 1, form_valid \in BOOLEAN :
          ToggleAllocationStatus(allocation_id, form_valid)
    \/ Tick

AllocSpec == AllocInit /\ [][AllocNext]_vars

(***************************************************************************)
(* The ledger of an allocation: transactions and repayments made through   *)
(* the routes of app.py, and Repayment.update_status (models.py).          *)
(***************************************************************************)
MaxLedgerTx == 2

FormAmounts == {25}
FormDueDates == {0, 62}

\* (mutation) a payment made after the due date still counts as paid
StatusOf_PaidWhenLate(r) ==
    IF r.payment_date # None THEN "paid"
    ELSE IF IsMissed(r) THEN "missed" ELSE "scheduled"

\* the status Repayment.update_status assigns
StatusOf(r) ==
    IF r.payment_date # None
        THEN (IF IsLate(r) THEN "late" ELSE "paid")
        ELSE (IF IsMissed(r) THEN "missed" ELSE "scheduled")

\* Repayment.update_status on repayment repayment_id
UpdateStatus(repayment_id) ==
    /\ repayment_id \in DOMAIN repayments
    /\ repayments' = [repayments EXCEPT
                         ![repayment_id].status = StatusOf(repayments[repayment_id])]
    /\ outcome' = [op |-> "update_status", arg |-> repayment_id,
                   result |-> StatusOf(repayments[repayment_id])]
    /\ UNCHANGED <<now, tradelines, purchases, allocations, transactions, records,
                   agent, invocations, sessions,
                   loans, defi_repayments, promo_codes>>

\* POST /ai-agents/1/repayment/schedule
ScheduleRepayment(allocation_id, amount, due_date) ==
    /\ IF allocation_id \notin DOMAIN allocations THEN
           /\ Respond("404")
           /\ UNCHANGED repayments
       ELSE IF allocations[allocation_id].agent_id # 1 THEN
           /\ Respond("error")
           /\ UNCHANGED repayments
       ELSE
           /\ Len(repayments) < MaxRep
           /\ repayments' = Append(repayments,
                                   Repayment(allocation_id, amount, due_date,
                                             None, "scheduled"))
           /\ Respond("ok")
    /\ UNCHANGED <<now, tradelines, purchases, allocations, transactions, records,
                   agent, invocations, sessions,
                   loans, defi_repayments, promo_codes>>

\* POST /ai-agents/1/repayment/<repayment_id>/update
UpdateRepayment(repayment_id, amount, due_date) ==
    /\ IF repayment_id \notin DOMAIN repayments THEN
           /\ Respond("404")
           /\ UNCHANGED repayments
       ELSE IF repayments[repayment_id].status # "scheduled" THEN
           /\ Respond("error")
           /\ UNCHANGED repayments
       ELSE
           /\ repayments' = [repayments EXCEPT ![repayment_id].amount = amount,
                                               ![repayment_id].due_date = due_date]
           /\ Respond("ok")
    /\ UNCHANGED <<now, tradelines, purchases, allocations, transactions, records,
                   agent, invocations, sessions,
                   loans, defi_repayments, promo_codes>>

LedgerInit ==
    /\ now = 0
    /\ tradelines = <<[credit_limit |-> 100, interest_rate |-> Some(12)]>>
    /\ purchases = <<[tradeline_id |-> 1, purchaser_id |-> 1,
                      allocated_limit |-> 100, is_active |-> TRUE]>>
    /\ allocations = <<Allocation(1, 100, TRUE),
                       [Allocation(1, 100, TRUE) EXCEPT !.agent_id = 2]>>
    /\ transactions = <<>>
    /\ repayments = <<>>
    /\ records = <<>>
    /\ agent = NewAgent
    /\ outcome = Idle
    /\ invocations = 0
    /\ sessions = [p \in Callers |-> IdleSession]
    /\ loans = <<>>
    /\ defi_repayments = <<>>
    /\ promo_codes = <<>>

LedgerNext ==
    \/ \E allocation_id \in 1 .. 3, amount \in TxAmounts :
          AgentTransactionUpTo(allocation_id, amount, MaxLedgerTx, MaxLedgerTx)
    \/ \E repayment_id \in 1 .. MaxLedgerTx : ProcessRepayment(repayment_id)
    \/ Tick

LedgerSpec == LedgerInit /\ [][LedgerNext]_vars

\* the repayment routes, with agent_transaction as one more source of
\* repayments
RepaymentNext ==
    \/ \E allocation_id \in 1 .. 3, amount \in TxAmounts :
          AgentTransactionUpTo(allocation_id, amount, MaxTx, MaxRep)
    \/ \E allocation_id \in 1 .. 3, amount \in FormAmounts, due_date \in FormDueDates :
          ScheduleRepayment(allocation_id, amount, due_date)
    \/ \E repayment_id \in 1 .. MaxRep + 1, amount \in FormAmounts,
          due_date \in FormDueDates :
          UpdateRepayment(repayment_id, amount, due_date)
    \/ \E repayment_id \in 1 .. MaxRep : ProcessRepayment(repayment_id)
    \/ \E repayment_id \in 1 .. MaxRep : UpdateStatus(repayment_id)
    \/ Tick

RepaymentSpec == LedgerInit /\ [][RepaymentNext]_vars

(***************************************************************************)
(* DefiRepayment.update_status (models.py).  Under DefiRepaymentSpec the   *)
(* clock counts half days, so that timedelta.days is a rounding down.      *)
(***************************************************************************)
MaxDefiRep == 1
MaxDefiClock == 63
MissedAfterDays == 30
HalfDaysPerDay == 2

DefiSteps == {1, 60}
DefiDueDates == {0, 2}
DefiPaymentDates == {None, Some(0), Some(63)}

DefiRepayment(loan_id, amount, due_date, payment_date, status) ==
    [loan_id |-> loan_id, amount |-> amount, due_date |-> due_date,
     payment_date |-> payment_date, status |-> status]

\* DefiRepayment.is_late: unpaid and past the due date
DefiIsLate(r) == r.payment_date = None /\ r.due_date < now

\* DefiRepayment.days_overdue: (utcnow() - due_date).days when late
DefiDaysOverdue(r) ==
    IF DefiIsLate(r) THEN (now - r.due_date) \div HalfDaysPerDay ELSE 0

\* (mutation) the status follows the clock even after the payment
DefiStatusOf_IgnoresPayment(r) ==
    IF r.due_date < now
        THEN (IF (now - r.due_date) \div HalfDaysPerDay > MissedAfterDays
                  THEN "missed" ELSE "late")
        ELSE "scheduled"

\* the status DefiRepayment.update_status assigns
DefiStatusOf(r) ==
    IF r.payment_date # None THEN "paid"
    ELSE IF DefiIsLate(r)
        THEN (IF DefiDaysOverdue(r) > MissedAfterDays THEN "missed" ELSE "late")
        ELSE "scheduled"

\* DefiRepayment.update_status on repayment repayment_id
DefiUpdateStatus(repayment_id) ==
    /\ repayment_id \in DOMAIN defi_repayments
    /\ defi_repayments' =
           [defi_repayments EXCEPT
               ![repayment_id].status = DefiStatusOf(defi_repayments[repayment_id])]
    /\ outcome' = [op |-> "defi_update_status", arg |-> repayment_id,
                   result |-> DefiStatusOf(defi_repayments[repayment_id])]
    /\ UNCHANGED <<now, tradelines, purchases, allocations, transactions,
                   repayments, records, agent, invocations, sessions, loans,
                   promo_codes>>

\* datetime.utcnow() advances by half a day or by thirty days
DefiTick ==
    /\ \E step \in DefiSteps :
          /\ now + step <= MaxDefiClock
          /\ now' = now + step
    /\ UNCHANGED <<tradelines, purchases, allocations, transactions, repayments,
                   records, agent, outcome, invocations, sessions, loans,
                   defi_repayments, promo_codes>>

DefiRepaymentInit ==
    /\ now = 0
    /\ tradelines = <<>>
    /\ purchases = <<>>
    /\ allocations = <<>>
    /\ transactions = <<>>
    /\ repayments = <<>>
    /\ records = <<>>
    /\ agent = NewAgent
    /\ outcome = Idle
    /\ invocations = 0
    /\ sessions = [p \in Callers |-> IdleSession]
    /\ loans = <<>>
    /\ \E n \in 1 .. MaxDefiRep :
          \E rows \in [1 .. n -> {DefiRepayment(1, 25, due_date, payment_date,
                                                "scheduled") :
                                     due_date \in DefiDueDates,
                                     payment_date \in DefiPaymentDates}] :
              defi_repayments = rows
    /\ promo_codes = <<>>

DefiRepaymentNext ==
    \/ \E repayment_id \in 1 .. MaxDefiRep : DefiUpdateStatus(repayment_id)
    \/ DefiTick

DefiRepaymentSpec == DefiRepaymentInit /\ [][DefiRepaymentNext]_vars

(***************************************************************************)
(* DefiLoan: liquidation of the collateral (models.py) and the routes that *)
(* ask for it (app.py).  defi_lending_manager (modules.defi_lending) is    *)
(* not part of the sources; its liquidate_collateral is modelled as a call *)
(* of DefiLoan.liquidate_collateral followed by a commit.                  *)
(***************************************************************************)
LoanRepaymentStates ==
    {DefiRepayment(1, 25, 2, None, "scheduled"),
     DefiRepayment(1, 25, 2, Some(0), "paid"),
     DefiRepayment(1, 25, 0, None, "late"),
     DefiRepayment(1, 25, 0, None, "missed")}

DefiLoan(has_collateral, collateral_amount) ==
    [agent_id |-> 1, total_repayment |-> 100, status |-> "active",
     has_collateral |-> has_collateral, collateral_amount |-> collateral_amount,
     collateral_liquidated |-> FALSE, liquidation_date |-> None]

\* self.repayments: the DefiRepayment rows of the loan
RepaymentsOfLoan(loan_id) ==
    {k \in DOMAIN defi_repayments : defi_repayments[k].loan_id = loan_id}

RECURSIVE PaidAmount(_)
PaidAmount(S) ==
    IF S = {} THEN 0
    ELSE LET k == CHOOSE j \in S : TRUE
         IN  (IF defi_repayments[k].status = "paid"
                  THEN defi_repayments[k].amount ELSE 0) + PaidAmount(S \ {k})

\* DefiLoan.calculate_current_balance
CalculateCurrentBalance(loan_id) ==
    loans[loan_id].total_repayment - PaidAmount(RepaymentsOfLoan(loan_id))

\* DefiLoan.is_collateral_sufficient
IsCollateralSufficient(loan_id) ==
    IF ~loans[loan_id].has_collateral \/ loans[loan_id].collateral_liquidated
        THEN FALSE
        ELSE loans[loan_id].collateral_amount >= CalculateCurrentBalance(loan_id)

\* (mutation) collateral_liquidated is not tested
CanLiquidate_Again(loan) == loan.has_collateral

\* not (not self.has_collateral or self.collateral_liquidated)
CanLiquidate(loan) == loan.has_collateral /\ ~loan.collateral_liquidated

\* the assignments of DefiLoan.liquidate_collateral
Liquidated(loan_id) ==
    /\ loans' = [loans EXCEPT ![loan_id].collateral_liquidated = TRUE,
                              ![loan_id].liquidation_date = Some(now),
                              ![loan_id].status = "defaulted"]
    /\ defi_repayments' =
           [k \in DOMAIN defi_repayments |->
               IF defi_repayments[k].loan_id = loan_id
                      /\ defi_repayments[k].status = "scheduled"
                   THEN [defi_repayments[k] EXCEPT !.status = "missed"]
                   ELSE defi_repayments[k]]

\* DefiLoan.liquidate_collateral on loan loan_id
LiquidateCollateral(loan_id) ==
    /\ loan_id \in DOMAIN loans
    /\ IF CanLiquidate(loans[loan_id]) THEN
           /\ Liquidated(loan_id)
           /\ outcome' = [op |-> "liquidate_collateral", arg |-> loan_id,
                          result |-> "True"]
       ELSE
           /\ outcome' = [op |-> "liquidate_collateral", arg |-> loan_id,
                          result |-> "False"]
           /\ UNCHANGED <<loans, defi_repayments>>
    /\ UNCHANGED <<now, tradelines, purchases, allocations, transactions,
                   repayments, records, agent, invocations, sessions, promo_codes>>

\* a call of DefiLoan.is_collateral_sufficient
CheckCollateral(loan_id) ==
    /\ loan_id \in DOMAIN loans
    /\ outcome' = [op |-> "is_collateral_sufficient", arg |-> loan_id,
                   result |-> IF IsCollateralSufficient(loan_id)
                                  THEN "True" ELSE "False"]
    /\ UNCHANGED <<now, tradelines, purchases, allocations, transactions,
                   repayments, records, agent, invocations, sessions, loans,
                   defi_repayments, promo_codes>>

\* POST /ai-agents/1/defi-loan/<loan_id>/liquidate
LiquidateLoanCollateral(loan_id) ==
    IF loan_id \notin DOMAIN loans THEN
        /\ Respond("404")
        /\ UNCHANGED <<now, tradelines, purchases, allocations, transactions,
                       repayments, records, agent, invocations, sessions, loans,
                       defi_repayments, promo_codes>>
    ELSE IF ~loans[loan_id].has_collateral \/ loans[loan_id].collateral_liquidated THEN
        /\ Respond("warning")
        /\ UNCHANGED <<now, tradelines, purchases, allocations, transactions,
                       repayments, records, agent, invocations, sessions, loans,
                       defi_repayments, promo_codes>>
    ELSE
        /\ Liquidated(loan_id)
        /\ UpdateCreditScore("liquidate_loan_collateral")
        /\ Respond("ok")
        /\ UNCHANGED <<now, tradelines, purchases, allocations, transactions,
                       repayments, records, sessions, promo_codes>>

\* POST /defi/loan/notification with type collateral_check
DefiLoanNotification(loan_id) ==
    /\ IF loan_id \notin DOMAIN loans THEN
           /\ Respond("404")
           /\ UNCHANGED <<loans, defi_repayments>>
       ELSE IF ~loans[loan_id].has_collateral \/ loans[loan_id].collateral_liquidated THEN
           /\ Respond("no_action_needed")
           /\ UNCHANGED <<loans, defi_repayments>>
       ELSE IF ~IsCollateralSufficient(loan_id) THEN
           /\ Liquidated(loan_id)
           /\ Respond("liquidation_performed")
       ELSE
           /\ Respond("collateral_sufficient")
           /\ UNCHANGED <<loans, defi_repayments>>
    /\ UNCHANGED <<now, tradelines, purchases, allocations, transactions,
                   repayments, records, agent, invocations, sessions, promo_codes>>

DefiLoanInit ==
    /\ now = 0
    /\ tradelines = <<>>
    /\ purchases = <<>>
    /\ allocations = <<>>
    /\ transactions = <<>>
    /\ repayments = <<>>
    /\ records = <<>>
    /\ agent = NewAgent
    /\ outcome = Idle
    /\ invocations = 0
    /\ sessions = [p \in Callers |-> IdleSession]
    /\ \E has_collateral \in BOOLEAN, collateral_amount \in {50, 200} :
          loans = <<DefiLoan(has_collateral, collateral_amount),
                    DefiLoan(TRUE, 200)>>
    /\ \E first \in LoanRepaymentStates, second \in LoanRepaymentStates :
          defi_repayments =
              <<first, second, DefiRepayment(2, 25, 2, None, "scheduled")>>
    /\ promo_codes = <<>>

DefiLoanNext ==
    \/ \E loan_id \in 1 .. 2 : LiquidateCollateral(loan_id)
    \/ \E loan_id \in 1 .. 2 : CheckCollateral(loan_id)
    \/ \E loan_id \in 1 .. 3 : LiquidateLoanCollateral(loan_id)
    \/ \E loan_id \in 1 .. 3 : DefiLoanNotification(loan_id)
    \/ Tick

DefiLoanSpec == DefiLoanInit /\ [][DefiLoanNext]_vars

(***************************************************************************)
(* Promotion codes (models.py PromoCode) and the rental route that uses    *)
(* them.  The clock counts days.                                           *)
(***************************************************************************)
MaxRentals == 3
CurrentUser == 1
PromoValidFrom == {0, TickDays}
PromoValidUntil == {None, Some(0), Some(TickDays)}
PromoMaxUses == {None, Some(1), Some(2)}
RentalDaysPerMonth == 30

PromoCode(is_active, valid_from, valid_until, max_uses, discount_percentage) ==
    [discount_percentage |-> discount_percentage, is_active |-> is_active,
     valid_from |-> valid_from, valid_until |-> valid_until,
     max_uses |-> max_uses, current_uses |-> 0]

\* PromoCode.is_valid
IsValid(code) ==
    IF ~code.is_active THEN FALSE
    ELSE IF code.valid_until # None /\ now > code.valid_until[1] THEN FALSE
    ELSE IF code.max_uses # None /\ code.current_uses >= code.max_uses[1] THEN FALSE
    ELSE TRUE

\* PromoCode.apply_discount: the price it returns
DiscountedPrice(code, original_price) ==
    IF ~IsValid(code) THEN Num(original_price)
    ELSE LET discount_amount == Divide(original_price * code.discount_percentage, 100)
         IN  RSub(Num(original_price), discount_amount)

\* a call of PromoCode.is_valid
PromoIsValid(promo_id) ==
    /\ promo_id \in DOMAIN promo_codes
    /\ outcome' = [op |-> "is_valid", arg |-> promo_id,
                   result |-> IF IsValid(promo_codes[promo_id]) THEN "True" ELSE "False"]
    /\ UNCHANGED <<now, tradelines, purchases, allocations, transactions, repayments,
                   records, agent, invocations, sessions,
                   loans, defi_repayments, promo_codes>>

\* a call of PromoCode.apply_discount
ApplyDiscount(promo_id, original_price) ==
    /\ promo_id \in DOMAIN promo_codes
    /\ outcome' = [op |-> "apply_discount", arg |-> promo_id, result |-> "returned",
                   original_price |-> original_price,
                   price |-> DiscountedPrice(promo_codes[promo_id], original_price)]
    /\ UNCHANGED <<now, tradelines, purchases, allocations, transactions, repayments,
                   records, agent, invocations, sessions,
                   loans, defi_repayments, promo_codes>>

\* modules.promo_codes.validate_promo_code: the code of that text when it
\* exists and passes is_valid, otherwise no code and an error message
ValidatePromoCode(promo_id) ==
    IF promo_id \in DOMAIN promo_codes /\ IsValid(promo_codes[promo_id])
    THEN Some(promo_id) ELSE None

\* POST /marketplace/rent/<tradeline_id>; promo = None is an empty promo_code field
RentTradeline(tradeline_id, rental_months, promo) ==
    /\ Len(purchases) < MaxRentals
    /\ IF tradeline_id \notin DOMAIN tradelines
       THEN /\ Respond("404")
            /\ UNCHANGED <<purchases, promo_codes>>
       ELSE LET tradeline == tradelines[tradeline_id] IN
            IF ~tradeline.is_for_rent \/ tradeline.owner_id = CurrentUser
            THEN /\ Respond("not available for rent")
                 /\ UNCHANGED <<purchases, promo_codes>>
            ELSE LET promo_code == IF promo = None THEN None
                                   ELSE ValidatePromoCode(promo[1])
                     original_price == tradeline.rental_price * rental_months
                     discount_percentage ==
                         IF promo_code = None THEN 0
                         ELSE promo_codes[promo_code[1]].discount_percentage
                     final_price ==
                         IF promo_code = None THEN Num(original_price)
                         ELSE RMul(Num(original_price),
                                   RSub(Num(1), Divide(discount_percentage, 100)))
                 IN  /\ promo_codes' =
                           IF promo_code = None THEN promo_codes
                           ELSE [promo_codes EXCEPT ![promo_code[1]].current_uses = @ + 1]
                     /\ purchases' = Append(purchases,
                           [tradeline_id |-> tradeline_id, purchaser_id |-> CurrentUser,
                            is_rental |-> TRUE, rental_start_date |-> now,
                            rental_end_date |-> now + rental_months * RentalDaysPerMonth,
                            price_paid |-> final_price,
                            original_price |-> IF discount_percentage > 0
                                               THEN Some(original_price) ELSE None,
                            allocated_limit |-> tradeline.available_limit,
                            is_active |-> TRUE, promo_code_id |-> promo_code])
                     /\ Respond(IF promo_code = None THEN "rented"
                                ELSE "rented with discount")
    /\ UNCHANGED <<now, tradelines, allocations, transactions, repayments,
                   records, agent, invocations, sessions, loans, defi_repayments>>

MarketTradeline(owner_id, is_for_sale, is_for_rent) ==
    [owner_id |-> owner_id, credit_limit |-> 100, available_limit |-> 100,
     interest_rate |-> Some(12), is_for_sale |-> is_for_sale,
     is_for_rent |-> is_for_rent, sale_price |-> 500, rental_price |-> 50]

PromoInit ==
    /\ now = 0
    /\ tradelines = <<MarketTradeline(2, FALSE, TRUE), MarketTradeline(CurrentUser, FALSE, TRUE)>>
    /\ purchases = <<>>
    /\ allocations = <<>>
    /\ transactions = <<>>
    /\ repayments = <<>>
    /\ records = <<>>
    /\ agent = NewAgent
    /\ outcome = Idle
    /\ invocations = 0
    /\ sessions = [p \in Callers |-> IdleSession]
    /\ loans = <<>>
    /\ defi_repayments = <<>>
    /\ \E is_active \in BOOLEAN, valid_from \in PromoValidFrom,
          valid_until \in PromoValidUntil, max_uses \in PromoMaxUses,
          discount_percentage \in {20} :
          promo_codes = <<PromoCode(is_active, valid_from, valid_until, max_uses,
                                    discount_percentage)>>

PromoNext ==
    \/ \E promo_id \in 1 .. 1 : PromoIsValid(promo_id)
    \/ \E promo_id \in 1 .. 1 : ApplyDiscount(promo_id, 50)
    \/ \E tradeline_id \in 1 .. 3, rental_months \in {1, 2},
          promo \in {None, Some(1), Some(2)} :
          RentTradeline(tradeline_id, rental_months, promo)
    \/ Tick

PromoSpec == PromoInit /\ [][PromoNext]_vars

(***************************************************************************)
(* Purchases in the marketplace.  Every request runs in its own database   *)
(* session: it loads the tradeline (Tradeline.query.get_or_404), tests the *)
(* row it loaded, and commits the purchase and is_for_sale = False.        *)
(* Nothing locks the row between the load and the commit, and no           *)
(* constraint limits the purchases of a tradeline.                         *)
(***************************************************************************)
Users == 1 .. 3
Owner == 3
NoRequest == [pc |-> "idle", tradeline_id |-> 0, row |-> None]

\* Tradeline.query.get_or_404(tradeline_id) in the request of a user
LoadTradeline(user, tradeline_id) ==
    /\ sessions[user].pc = "idle"
    /\ IF tradeline_id \in DOMAIN tradelines
       THEN /\ sessions' = [sessions EXCEPT ![user] =
                              [pc |-> "loaded", tradeline_id |-> tradeline_id,
                               row |-> Some(tradelines[tradeline_id])]]
            /\ UNCHANGED outcome
       ELSE /\ Respond("404")
            /\ UNCHANGED sessions
    /\ UNCHANGED <<now, tradelines, purchases, allocations, transactions, repayments,
                   records, agent, invocations, loans, defi_repayments, promo_codes>>

\* the rest of purchase_tradeline, on the row the request loaded
PurchaseTradeline(user, method, csrf_valid) ==
    /\ sessions[user].pc = "loaded"
    /\ sessions' = [sessions EXCEPT ![user] = NoRequest]
    /\ LET tradeline == sessions[user].row[1]
           tradeline_id == sessions[user].tradeline_id
       IN  IF ~tradeline.is_for_sale \/ tradeline.owner_id = user
           THEN /\ Respond("not available for purchase")
                /\ UNCHANGED <<tradelines, purchases>>
           ELSE IF method # "POST"
           THEN /\ Respond("purchase page")
                /\ UNCHANGED <<tradelines, purchases>>
           ELSE IF ~csrf_valid
           THEN /\ Respond("CSRF validation failed")
                /\ UNCHANGED <<tradelines, purchases>>
           ELSE /\ purchases' = Append(purchases,
                      [tradeline_id |-> tradeline_id, purchaser_id |-> user,
                       is_rental |-> FALSE, price_paid |-> tradeline.sale_price,
                       allocated_limit |-> tradeline.available_limit,
                       is_active |-> TRUE, purchase_date |-> now])
                /\ tradelines' = [tradelines EXCEPT ![tradeline_id].is_for_sale = FALSE]
                /\ Respond("purchased")
    /\ UNCHANGED <<now, allocations, transactions, repayments, records, agent,
                   invocations, loans, defi_repayments, promo_codes>>

PurchaseInit ==
    /\ now = 0
    /\ \E second_for_sale \in BOOLEAN :
          tradelines = <<MarketTradeline(Owner, TRUE, FALSE),
                         MarketTradeline(Owner, second_for_sale, TRUE)>>
    /\ purchases = <<>>
    /\ allocations = <<>>
    /\ transactions = <<>>
    /\ repayments = <<>>
    /\ records = <<>>
    /\ agent = NewAgent
    /\ outcome = Idle
    /\ invocations = 0
    /\ sessions = [user \in Users |-> NoRequest]
    /\ loans = <<>>
    /\ defi_repayments = <<>>
    /\ promo_codes = <<>>

PurchaseNext ==
    \/ \E user \in Users, tradeline_id \in 1 .. 3 : LoadTradeline(user, tradeline_id)
    \/ \E user \in Users, method \in {"GET", "POST"}, csrf_valid \in BOOLEAN :
          PurchaseTradeline(user, method, csrf_valid)
    \/ Tick

PurchaseSpec == PurchaseInit /\ [][PurchaseNext]_vars

(***************************************************************************)
(* Claims about the aggregator, checked under PerfSpec (the store is       *)
(* constant there, so a record can be compared with the rows it came from).*)
(***************************************************************************)
RecordCall == outcome.op = "record_tradeline_performance"

\* an allocation of the tradeline with is_active = True exists
HasActiveAllocation(tradeline_id) ==
    \E a \in DOMAIN allocations :
        allocations[a].tradeline_id = tradeline_id /\ allocations[a].is_active = TRUE

RECURSIVE AmountOf(_, _)
AmountOf(rows, S) ==
    IF S = {} THEN 0
    ELSE LET k == CHOOSE j \in S : TRUE IN rows[k].amount + AmountOf(rows, S \ {k})

\* C1: record_tradeline_performance returns None, raises nothing and persists
\* no record whenever the tradeline does not exist or none of its allocations
\* has is_active = True.
C1_NoActiveAllocationNoRecord ==
    \A tradeline_id \in QueryIds :
        (tradeline_id \notin DOMAIN tradelines \/ ~HasActiveAllocation(tradeline_id)) =>
            /\ \A i \in DOMAIN records : records[i].tradeline_id # tradeline_id
            /\ (RecordCall /\ outcome.arg = tradeline_id) => outcome.result = "None"

\* the call was made for a tradeline whose allocations are all inactive
C1_Witness ==
    /\ RecordCall /\ outcome.arg = 2 /\ outcome.result = "None"
    /\ \E a \in DOMAIN allocations : allocations[a].tradeline_id = 2
    /\ ~HasActiveAllocation(2)

\* C2: in every snapshot current_balance is the sum of the amounts of the
\* completed transactions of the tradeline's active allocations, and
\* available_credit is credit_limit minus current_balance; credit limit 100
\* with one completed transaction of 25 gives 25 / 75 / one quarter.
C2_BalanceOfCompletedActive ==
    \A i \in DOMAIN records :
        LET rec == records[i]
            counted == {k \in DOMAIN transactions :
                           /\ transactions[k].status = "completed"
                           /\ \E a \in DOMAIN allocations :
                                 /\ a = transactions[k].tradeline_allocation_id
                                 /\ allocations[a].tradeline_id = rec.tradeline_id
                                 /\ allocations[a].is_active = TRUE}
            limit == tradelines[rec.tradeline_id].credit_limit
        IN  /\ rec.current_balance = AmountOf(transactions, counted)
            /\ rec.available_credit = limit - rec.current_balance
            /\ (limit = 100 /\ Cardinality(counted) = 1 /\ rec.current_balance = 25) =>
                   (rec.available_credit = 75 /\ rec.utilization_rate = <<1, 4>>)

\* the scenario's snapshot, taken while a second transaction is not counted
C2_Witness ==
    /\ Len(transactions) = 2
    /\ \E k \in DOMAIN transactions :
          transactions[k].status # "completed" \/ ~allocations[transactions[k].tradeline_allocation_id].is_active
    /\ \E i \in DOMAIN records :
          /\ records[i].current_balance = 25
          /\ records[i].available_credit = 75
          /\ records[i].utilization_rate = <<1, 4>>

\* C4 (as claimed): every call for a tradeline with credit_limit <= 0 and an
\* active allocation produces a snapshot with utilization_rate 0.
C4_NonPositiveLimitSnapshot ==
    \A tradeline_id \in DOMAIN tradelines :
        (/\ RecordCall /\ outcome.arg = tradeline_id
         /\ tradelines[tradeline_id].credit_limit <= 0
         /\ HasActiveAllocation(tradeline_id)) =>
            /\ outcome.result = "record"
            /\ records # <<>>
            /\ records[Len(records)].utilization_rate = <<0, 1>>

\* C5: in every snapshot payment_ratio is 1 when current_balance <= 0 and
\* total_repayments / current_balance otherwise, total_repayments being the
\* sum of the repayments with status paid or late of the active allocations.
C5_PaymentRatio ==
    \A i \in DOMAIN records :
        LET rec == records[i]
            counted == {k \in DOMAIN repayments :
                           /\ repayments[k].status \in {"paid", "late"}
                           /\ \E a \in DOMAIN allocations :
                                 /\ a = repayments[k].tradeline_allocation_id
                                 /\ allocations[a].tradeline_id = rec.tradeline_id
                                 /\ allocations[a].is_active = TRUE}
        IN  /\ rec.total_repayments = AmountOf(repayments, counted)
            /\ rec.current_balance <= 0 => rec.payment_ratio = <<1, 1>>
            /\ rec.current_balance > 0 =>
                   /\ rec.payment_ratio[2] > 0
                   /\ rec.payment_ratio[1] * rec.current_balance
                          = rec.total_repayments * rec.payment_ratio[2]

\* a snapshot with no positive balance whose repayments are not zero, taken
\* while a scheduled or missed repayment is left out of the total
C5_Witness ==
    /\ \E k \in DOMAIN repayments : repayments[k].status \in {"scheduled", "missed"}
    /\ \E i \in DOMAIN records :
          /\ records[i].current_balance < 0
          /\ records[i].total_repayments > 0
          /\ records[i].payment_ratio = <<1, 1>>

\* a snapshot with a positive balance and a ratio that is neither 0 nor 1
C5_WitnessRatio ==
    \E i \in DOMAIN records :
        /\ records[i].current_balance > 0
        /\ records[i].total_repayments > 0
        /\ records[i].payment_ratio \notin {<<0, 1>>, <<1, 1>>}

\* C6: in every snapshot risk_score = 30 u + min(40, 10 late) + max(0, 30 - 30 p)
\* for its utilization_rate u = un/ud, repayments_late and payment_ratio
\* p = pn/pd; the late component is 40 from 4 late repayments on and the
\* payment component is 0 from p = 1 on.  Stated over the integers; the
\* formula is also applied to the snapshot's u and p with every late count
\* up to MaxLate.
C6_RiskScoreFormula ==
    \A i \in DOMAIN records :
        LET rec == records[i]
            un == rec.utilization_rate[1]
            ud == rec.utilization_rate[2]
            pn == rec.payment_ratio[1]
            pd == rec.payment_ratio[2]
            late == IF rec.repayments_late >= 4 THEN 40 ELSE 10 * rec.repayments_late
            pay == IF pn >= pd THEN 0 ELSE 30 * pd - 30 * pn
        IN  /\ ud > 0 /\ pd > 0 /\ rec.risk_score[2] > 0
            /\ rec.risk_score[1] * ud * pd
                   = rec.risk_score[2] * (30 * un * pd + late * ud * pd + pay * ud)
            /\ \A n \in 0 .. MaxLate :
                   LET score == RiskScore(rec.utilization_rate, n, rec.payment_ratio)
                       part == IF n >= 4 THEN 40 ELSE 10 * n
                   IN  /\ score[2] > 0
                       /\ score[1] * ud * pd
                              = score[2] * (30 * un * pd + part * ud * pd + pay * ud)
                       /\ n >= 4 => score = RiskScore(rec.utilization_rate, 4,
                                                       rec.payment_ratio)

\* a snapshot whose utilization and payment components are both positive
C6_Witness ==
    \E i \in DOMAIN records :
        /\ records[i].utilization_rate[1] > 0
        /\ records[i].payment_ratio[1] > 0
        /\ records[i].payment_ratio[1] < records[i].payment_ratio[2]
        /\ records[i].risk_score[1] > 0

\* a snapshot whose payment ratio is above 1: the payment component is 0
C6_WitnessPaid ==
    \E i \in DOMAIN records :
        /\ records[i].payment_ratio[1] > records[i].payment_ratio[2]
        /\ records[i].utilization_rate[1] > 0
        /\ records[i].risk_score = RMul(records[i].utilization_rate, Num(30))

(***************************************************************************)
(* Claims about snapshots of what the routes record, checked under Spec.   *)
(***************************************************************************)
\* C3 (as claimed): for a tradeline with credit_limit > 0 and the transactions
\* the application records, utilization_rate is >= 0 and equals
\* current_balance / credit_limit.
C3_UtilizationNonNegative ==
    \A i \in DOMAIN records :
        LET rec == records[i]
            limit == tradelines[rec.tradeline_id].credit_limit
        IN  limit > 0 =>
                /\ rec.utilization_rate[2] > 0
                /\ rec.utilization_rate[1] * limit
                       = rec.current_balance * rec.utilization_rate[2]
                /\ rec.utilization_rate[1] >= 0

\* C7 (as claimed): the risk_score of every record lies in 0 .. 100.
C7_RiskScoreInRange ==
    \A i \in DOMAIN records :
        /\ records[i].risk_score[2] > 0
        /\ records[i].risk_score[1] >= 0
        /\ records[i].risk_score[1] <= 100 * records[i].risk_score[2]

(***************************************************************************)
(* Claims about the score history.                                         *)
(***************************************************************************)
\* the list a history column holds, when it holds one
ListOf(column) ==
    IF column # None /\ column[1].valid /\ column[1].kind = "list"
        THEN column[1].doc ELSE <<>>

HoldsList(column) == column # None /\ column[1].valid /\ column[1].kind = "list"

\* C8: the score history is append-only: a step from a state whose stored
\* history is a valid list leaves a valid list that has one more entry for
\* each update_credit_score call of the step, the old entries unchanged and
\* in their positions.
C8_AppendOnly ==
    [][HoldsList(agent.credit_score_history) =>
          LET old == ListOf(agent.credit_score_history)
              new == ListOf(agent'.credit_score_history)
              calls == invocations' - invocations
          IN  /\ HoldsList(agent'.credit_score_history)
              /\ calls \in {0, 1}
              /\ Len(new) = Len(old) + calls
              /\ SubSeq(new, 1, Len(old)) = old]_vars

\* two calls have been made on a history that was stored before them
C8_Witness ==
    LET h == ListOf(agent.credit_score_history)
    IN  /\ invocations = 2 /\ Len(h) = 3
        /\ h[1] = StoredEntry /\ h[2].inv = 1 /\ h[3].inv = 2

\* C9: the stored history holds the entry of every invocation so far, in
\* the order of the invocations, whichever routes made them.
C9_InvocationOrder ==
    LET h == ListOf(agent.credit_score_history)
    IN  /\ \A k \in 1 .. invocations : \E i \in DOMAIN h : h[i].inv = k
        /\ \A i, j \in DOMAIN h : i < j => h[i].inv < h[j].inv

\* a transaction's entry followed by the entry of processing its repayment
C9_Witness ==
    LET h == ListOf(agent.credit_score_history)
    IN  /\ Len(h) = 2
        /\ h[1].route = "agent_transaction" /\ h[1].inv = 1
        /\ h[2].route = "process_repayment" /\ h[2].inv = 2

\* p and q both loaded the agent before either wrote, and q wrote last
RacedPair(p, q) ==
    /\ p # q
    /\ sessions[p].pc = "done" /\ sessions[q].pc = "done"
    /\ sessions[p].seen = sessions[q].seen
    /\ sessions[p].score_data.inv < sessions[q].score_data.inv

\* C10: when two callers both read the stored history before either writes
\* it back, the stored history is what they read plus the last writer's
\* entry alone (one entry longer, not two) and credit_score is the last
\* writer's score.
C10_LastWriterWins ==
    \A p, q \in Callers :
        RacedPair(p, q) =>
            LET read == ListOf(sessions[q].row.credit_score_history)
                h == ListOf(agent.credit_score_history)
            IN  /\ HoldsList(agent.credit_score_history)
                /\ Len(h) = Len(read) + 1
                /\ SubSeq(h, 1, Len(read)) = read
                /\ h[Len(h)] = sessions[q].score_data
                /\ \A i \in DOMAIN h : h[i] # sessions[p].score_data
                /\ agent.credit_score = sessions[q].score_data.score

\* such a pair, on a stored history that is not empty, with different scores
C10_Witness ==
    \E p, q \in Callers :
        /\ RacedPair(p, q)
        /\ ListOf(sessions[q].row.credit_score_history) # <<>>
        /\ sessions[p].score_data.score # sessions[q].score_data.score

(***************************************************************************)
(* Claims about a stored history of any content, checked under             *)
(* HistorySpec.  While sessions[1].pc is "updated" or "raised" the call    *)
(* has run and nothing is committed: agent is the row the call read and    *)
(* sessions[1].row the row it left in the session.                         *)
(***************************************************************************)
CallMade == sessions[1].pc \in {"updated", "raised"}

\* C11: on a stored history that is not JSON, update_credit_score raises
\* nothing and leaves a well-formed list whose only entry is the new score.
C11_MalformedHistoryRebuilt ==
    (CallMade /\ agent.credit_score_history = Some(MalformedText)) =>
        /\ sessions[1].pc = "updated"
        /\ outcome.result = "score_data"
        /\ sessions[1].row.credit_score_history
               = Some(JsonDumps(<<sessions[1].score_data>>))

\* the call has run on text that is not JSON and left one entry
C11_Witness ==
    /\ sessions[1].pc = "updated"
    /\ agent.credit_score_history = Some(MalformedText)
    /\ Len(ListOf(sessions[1].row.credit_score_history)) = 1
    /\ ListOf(sessions[1].row.credit_score_history)[1].score
           = sessions[1].row.credit_score

\* the column is absent, empty, not JSON, or a JSON list
ListOrNothing(column) ==
    column = None \/ ~column[1].valid \/ column[1].kind = "list"

\* C12: get_credit_score_trend returns None when the history has 0 or 1
\* entries (an absent or empty column included), the result of the trend
\* analysis exactly when it has 2 or more, and leaves the agent as it was.
C12_TrendNeedsTwoEntries ==
    [][outcome'.op = "get_credit_score_trend" =>
          /\ agent' = agent
          /\ UNCHANGED <<allocations, transactions, repayments, sessions>>
          /\ ListOrNothing(agent.credit_score_history) =>
                 /\ Len(ListOf(agent.credit_score_history)) < 2
                        => outcome'.result = "None"
                 /\ Len(ListOf(agent.credit_score_history)) >= 2
                        => outcome'.result = "trend"]_vars

\* a trend was returned for a history whose second entry an update appended
C12_Witness ==
    /\ outcome.op = "get_credit_score_trend" /\ outcome.result = "trend"
    /\ Len(ListOf(agent.credit_score_history)) = 2
    /\ ListOf(agent.credit_score_history)[2].inv = 1

\* None was returned for an absent history and for a history of one entry
C12_WitnessNone ==
    /\ outcome.op = "get_credit_score_trend" /\ outcome.result = "None"
    /\ Len(ListOf(agent.credit_score_history)) = 1

\* C13 (as claimed): whatever the column holds that is not a JSON list, both
\* get_credit_score_trend and update_credit_score complete without raising
\* and treat the history as empty.
C13_CorruptHistoryNeverFatal ==
    ~HoldsList(agent.credit_score_history) =>
        /\ outcome.op = "get_credit_score_trend" => outcome.result = "None"
        /\ CallMade =>
              /\ sessions[1].pc = "updated"
              /\ sessions[1].row.credit_score_history
                     = Some(JsonDumps(<<sessions[1].score_data>>))

\* C13, get_credit_score_trend alone
C13_TrendOnCorruptHistory ==
    (~HoldsList(agent.credit_score_history) /\ outcome.op = "get_credit_score_trend")
        => outcome.result = "None"

\* C14: update_credit_score sets credit_score to the score it returns and
\* credit_score_updated to the current time, changes nothing else of the
\* agent but the history, changes no allocation, transaction or repayment,
\* and commits nothing: the stored row changes only by the caller's commit,
\* to the row of the session.
C14_UpdateFrame ==
    [][/\ (invocations' = invocations + 1 /\ outcome'.result = "score_data") =>
              /\ sessions'[1].row.credit_score = sessions'[1].score_data.score
              /\ sessions'[1].row.credit_score_updated = now
              /\ [sessions'[1].row EXCEPT
                     !.credit_score = agent.credit_score,
                     !.credit_score_updated = agent.credit_score_updated,
                     !.credit_score_history = agent.credit_score_history] = agent
              /\ agent' = agent
              /\ UNCHANGED <<allocations, transactions, repayments>>
       /\ agent' # agent =>
              /\ sessions[1].pc = "updated"
              /\ agent' = sessions[1].row
              /\ invocations' = invocations]_vars

\* the call has run and changed the score in the session; the stored row
\* still has the old score
C14_Witness ==
    /\ sessions[1].pc = "updated"
    /\ sessions[1].row.credit_score = sessions[1].score_data.score
    /\ sessions[1].row.credit_score # agent.credit_score
    /\ sessions[1].row.name = agent.name

\* the caller has committed: the stored row has the new score
C14_WitnessCommitted ==
    /\ sessions[1].pc = "done"
    /\ agent = sessions[1].row
    /\ agent.credit_score = sessions[1].score_data.score
    /\ agent.credit_score # DefaultCreditScore

Settled(tradeline_id) ==
    {k \in DOMAIN repayments :
        /\ repayments[k].status \in {"paid", "late"}
        /\ \E a \in DOMAIN allocations :
              /\ a = repayments[k].tradeline_allocation_id
              /\ allocations[a].tradeline_id = tradeline_id
              /\ allocations[a].is_active = TRUE}

\* paid after the due date
ComputedLate(k) ==
    /\ repayments[k].payment_date # None
    /\ repayments[k].payment_date[1] > repayments[k].due_date

LateOnes(tradeline_id) ==
    {k \in Settled(tradeline_id) : repayments[k].status = "late" \/ ComputedLate(k)}

OnTimeOnes(tradeline_id) ==
    {k \in Settled(tradeline_id) : repayments[k].status = "paid" /\ ~ComputedLate(k)}

RECURSIVE OverdueDays(_)
OverdueDays(S) ==
    IF S = {} THEN 0
    ELSE LET k == CHOOSE j \in S : TRUE
         IN  (IF repayments[k].payment_date # None
                  THEN repayments[k].payment_date[1] - repayments[k].due_date
                  ELSE now - repayments[k].due_date)
                 + OverdueDays(S \ {k})

\* C16 (as claimed): for a tradeline with a late repayment on an active
\* allocation the call completes and records days_delinquent = the sum of
\* the days overdue (payment date minus due date) of the late repayments.
C16_DaysDelinquentRecorded ==
    \A tradeline_id \in DOMAIN tradelines :
        (/\ RecordCall /\ outcome.arg = tradeline_id
         /\ LateOnes(tradeline_id) # {}) =>
            /\ outcome.result = "record"
            /\ records # <<>>
            /\ records[Len(records)].days_delinquent
                   = OverdueDays(LateOnes(tradeline_id))

\* C17: in every snapshot repayments_on_time counts the settled repayments
\* with status paid that were not paid after the due date, repayments_late
\* those with status late or paid after the due date; the two are disjoint
\* and cover the settled repayments, scheduled and missed ones are in
\* neither.  The same holds of the counts the aggregator computes for every
\* tradeline with an active allocation, whether or not the call then
\* completes.
C17_OnTimeAndLateCounts ==
    /\ \A i \in DOMAIN records :
          LET rec == records[i]
          IN  /\ rec.repayments_on_time = Cardinality(OnTimeOnes(rec.tradeline_id))
              /\ rec.repayments_late = Cardinality(LateOnes(rec.tradeline_id))
              /\ rec.repayments_on_time + rec.repayments_late
                     = Cardinality(Settled(rec.tradeline_id))
    /\ \A tradeline_id \in DOMAIN tradelines :
          HasActiveAllocation(tradeline_id) =>
              LET m == Metrics(tradeline_id)
              IN  /\ m.repayments_on_time = Cardinality(OnTimeOnes(tradeline_id))
                  /\ m.repayments_late = Cardinality(LateOnes(tradeline_id))
                  /\ OnTimeOnes(tradeline_id) \cap LateOnes(tradeline_id) = {}
                  /\ m.repayments_on_time + m.repayments_late
                         = Cardinality(Settled(tradeline_id))

\* a snapshot that counts a repayment on time while a scheduled or missed
\* repayment of the same allocation is counted nowhere
C17_Witness ==
    \E i \in DOMAIN records :
        /\ records[i].repayments_on_time = 1
        /\ records[i].repayments_late = 0
        /\ \E k \in DOMAIN repayments :
              /\ repayments[k].status \in {"scheduled", "missed"}
              /\ repayments[k].tradeline_allocation_id = 1
        /\ records[i].tradeline_id = 1

\* the aggregator counted a repayment paid after its due date as late and
\* one as on time, and the call then raised
C17_WitnessLate ==
    /\ RecordCall /\ outcome.arg = 1 /\ outcome.result = "AttributeError"
    /\ Metrics(1).repayments_late = 1
    /\ Metrics(1).repayments_on_time = 1

\* C18 (as claimed): for every existing tradeline with an active allocation
\* the call returns a record, whatever the tradeline's attributes and the
\* repayments are.
C18_NeverRaises ==
    \A tradeline_id \in DOMAIN tradelines :
        (RecordCall /\ outcome.arg = tradeline_id /\ HasActiveAllocation(tradeline_id))
            => outcome.result = "record"

\* C18 with credit_limit > 0 and an interest rate: the repayments alone
C18_NeverRaisesOnRepayments ==
    \A tradeline_id \in DOMAIN tradelines :
        (/\ RecordCall /\ outcome.arg = tradeline_id
         /\ HasActiveAllocation(tradeline_id)
         /\ tradelines[tradeline_id].credit_limit > 0
         /\ tradelines[tradeline_id].interest_rate # None)
            => outcome.result = "record"

(***************************************************************************)
(* Claims about the consumers of the risk classifier, checked under        *)
(* ReportSpec.                                                             *)
(***************************************************************************)
ConsumerRan == outcome.op \in {"reports", "generate_report"} /\ outcome.result # "403"

\* the entry of tradeline i in the response carries the fallback values
FallbackUsed(i) ==
    /\ i \in DOMAIN outcome.data
    /\ LET e == outcome.data[i]
       IN  /\ e.risk_score = FallbackRiskScore
           /\ "risk_category" \in DOMAIN e => e.risk_category = "Medium"
           /\ "recommendations" \in DOMAIN e => e.recommendations = <<>>

\* C19 (as claimed): whenever the classifier failed for a tradeline, the
\* reports page or generated report completes and carries risk_score 50,
\* risk_category 'Medium' and no recommendations for that tradeline.
C19_ConsumersCompleteWithFallback ==
    ConsumerRan =>
        \A i \in DOMAIN outcome.risk_data :
            outcome.risk_data[i].failed =>
                outcome.result = "ok" /\ FallbackUsed(i)

\* C19 for the responses that are produced: a tradeline whose classification
\* failed carries the fallback values.
C19_FallbackInResponses ==
    (ConsumerRan /\ outcome.result = "ok") =>
        \A i \in DOMAIN outcome.risk_data :
            outcome.risk_data[i].failed => FallbackUsed(i)

\* a completed tradeline_performance report with the defaults filled in for
\* a classifier result that has none of the keys
C19_WitnessFallback ==
    /\ outcome.op = "generate_report" /\ outcome.arg = "tradeline_performance"
    /\ outcome.result = "ok"
    /\ \E i \in DOMAIN outcome.risk_data :
          /\ outcome.risk_data[i].failed
          /\ "risk_score" \notin DOMAIN outcome.risk_data[i].data
          /\ FallbackUsed(i)

(***************************************************************************)
(* Claims about the allocation routes, checked under AllocSpec.            *)
(***************************************************************************)
\* C20 (as claimed): every allocation has a credit limit >= 0 in every
\* reachable state.
C20_AllocationLimitNonNegative ==
    \A a \in DOMAIN allocations : allocations[a].credit_limit >= 0

\* the second half of C20: a request that is rejected leaves the
\* allocations unchanged.
C20_RejectedRequestChangesNothing ==
    [][outcome'.result \in {"error", "redirect", "404", "TypeError"}
          => allocations' = allocations]_vars

\* an allocation was created within the limit and an update was accepted
C20_WitnessUpdated ==
    /\ Len(allocations) = 1
    /\ allocations[1].credit_limit = 150
    /\ purchases[1].allocated_limit = 100
    /\ outcome.result = "ok"

(***************************************************************************)
(* Claims about the repayment routes, checked under RepaymentSpec.         *)
(***************************************************************************)
\* C21: a repayment is processed at most once.  A step gives a repayment a
\* payment date only if its status was 'scheduled' and it had none; the step
\* then sets status 'paid' and payment_date now, changes no other repayment
\* and appends exactly one entry to the agent's score history.  A request
\* that is rejected changes neither the repayments nor the agent, and a
\* payment date once set never changes.
C21_ProcessedAtMostOnce ==
    [][/\ \A k \in DOMAIN repayments :
             /\ repayments[k].payment_date # None =>
                    repayments'[k].payment_date = repayments[k].payment_date
             /\ repayments'[k].payment_date # repayments[k].payment_date =>
                    /\ repayments[k].status = "scheduled"
                    /\ repayments'[k] = [repayments[k] EXCEPT
                                            !.status = "paid",
                                            !.payment_date = Some(now)]
                    /\ \A j \in DOMAIN repayments \ {k} :
                           repayments'[j] = repayments[j]
                    /\ Len(ListOf(agent'.credit_score_history))
                           = Len(ListOf(agent.credit_score_history)) + 1
                    /\ SubSeq(ListOf(agent'.credit_score_history), 1,
                              Len(ListOf(agent.credit_score_history)))
                           = ListOf(agent.credit_score_history)
       /\ outcome'.result \in {"error", "404"} =>
              agent' = agent /\ repayments' = repayments]_vars

\* a paid repayment on which a further request was rejected at a later time,
\* with the one history entry of its processing
C21_Witness ==
    /\ Len(repayments) = 1
    /\ repayments[1].status = "paid"
    /\ repayments[1].payment_date = Some(0)
    /\ now > 0
    /\ outcome.result = "error"
    /\ Len(ListOf(agent.credit_score_history)) = 1
    /\ ListOf(agent.credit_score_history)[1].route = "process_repayment"

\* C22: Repayment.update_status leaves the status as exactly one of
\* scheduled, paid, late, missed, chosen from the payment state alone: late
\* iff there is a payment date after the due date, paid iff there is a
\* payment date not after the due date, missed iff there is no payment date
\* and now is past the due date, scheduled otherwise.  It changes nothing but
\* the status, and a second call at the same instant gives the same status.
C22_StatusFromPaymentState ==
    [][(outcome'.op = "update_status" /\ now' = now) =>
          LET k == outcome'.arg
              before == repayments[k]
              after == repayments'[k]
              has_payment == before.payment_date # None
          IN  /\ after.status \in {"scheduled", "paid", "late", "missed"}
              /\ after.status = "late" <=>
                     (has_payment /\ before.payment_date[1] > before.due_date)
              /\ after.status = "paid" <=>
                     (has_payment /\ before.payment_date[1] <= before.due_date)
              /\ after.status = "missed" <=>
                     (~has_payment /\ now > before.due_date)
              /\ after.status = "scheduled" <=>
                     (~has_payment /\ now <= before.due_date)
              /\ after = [before EXCEPT !.status = after.status]
              /\ StatusOf(after) = after.status
              /\ \A j \in DOMAIN repayments \ {k} : repayments'[j] = repayments[j]]_vars

\* a repayment stored as paid, with a payment after its due date, that
\* update_status has just turned to late
C22_Witness ==
    /\ outcome.op = "update_status"
    /\ outcome.arg \in DOMAIN repayments
    /\ repayments[outcome.arg].status = "late"
    /\ repayments[outcome.arg].payment_date # None
    /\ repayments[outcome.arg].payment_date[1] > repayments[outcome.arg].due_date

\* update_status on a payment made exactly on the due date: paid
C22_WitnessOnDueDate ==
    /\ outcome.op = "update_status"
    /\ outcome.arg \in DOMAIN repayments
    /\ repayments[outcome.arg].status = "paid"
    /\ repayments[outcome.arg].payment_date = Some(repayments[outcome.arg].due_date)

\* update_status on an unpaid repayment past its due date: missed
C22_WitnessMissed ==
    /\ outcome.op = "update_status"
    /\ outcome.arg \in DOMAIN repayments
    /\ repayments[outcome.arg].status = "missed"
    /\ outcome.result = "missed"

\* C23 (as claimed): the stored status of every repayment agrees with its
\* payment state: a repayment with status 'paid' has a payment date that is
\* not after its due date.
C23_PaidMeansPaidOnTime ==
    \A k \in DOMAIN repayments :
        repayments[k].status = "paid" =>
            /\ repayments[k].payment_date # None
            /\ ~IsLate(repayments[k])

\* C23 in its general form: every stored status is the one update_status
\* would assign.
C23_StatusAgreesWithUpdateStatus ==
    \A k \in DOMAIN repayments : repayments[k].status = StatusOf(repayments[k])

(***************************************************************************)
(* Claims about agent_transaction, checked under LedgerSpec.               *)
(***************************************************************************)
History == ListOf(agent.credit_score_history)

\* the transactions of an allocation, by position
TransactionsOf(allocation_id) ==
    {k \in DOMAIN transactions :
        transactions[k].tradeline_allocation_id = allocation_id}

\* C24: agent_transaction rejects a request with an error and creates no
\* Transaction, no Repayment and no history entry when the allocation does
\* not exist, does not belong to the agent, or the amount exceeds the
\* allocation's credit_limit: a step that answers with an error changes
\* none of the three, and a step that creates a transaction creates it for
\* an existing allocation of the agent with an amount within its limit.
C24_RejectedCreatesNothing ==
    [][/\ outcome'.result = "error" =>
              /\ transactions' = transactions
              /\ repayments' = repayments
              /\ agent' = agent
       /\ transactions' # transactions =>
              LET t == transactions'[Len(transactions')]
              IN  /\ outcome'.result = "ok"
                  /\ t.tradeline_allocation_id \in DOMAIN allocations
                  /\ allocations[t.tradeline_allocation_id].agent_id = 1
                  /\ t.amount <= allocations[t.tradeline_allocation_id].credit_limit]_vars

\* a request was rejected after one was accepted; one transaction, one
\* repayment and one history entry exist
C24_Witness ==
    /\ outcome.result = "error"
    /\ Len(transactions) = 1
    /\ Len(repayments) = 1
    /\ repayments[1].status = "scheduled"
    /\ Len(History) = 1

\* C25: every accepted agent_transaction creates exactly one completed
\* Transaction whose balance_after is the balance_after of the allocation's
\* most recent transaction (0 if none) plus the amount, exactly one
\* Repayment for the same allocation and amount, scheduled and due 30 days
\* later, and exactly one history entry; so the latest balance_after of an
\* allocation is the sum of its transaction amounts.
C25_AcceptedTransactionEffects ==
    [][transactions' # transactions =>
          LET t == transactions'[Len(transactions')]
              r == repayments'[Len(repayments')]
              a == t.tradeline_allocation_id
              earlier == TransactionsOf(a)
              previous == IF earlier = {} THEN 0
                          ELSE transactions[CHOOSE k \in earlier :
                                   \A j \in earlier : j <= k].balance_after[1]
          IN  /\ transactions' = Append(transactions, t)
              /\ t.status = "completed"
              /\ t.balance_after = Some(previous + t.amount)
              /\ t.balance_after
                     = Some(AmountOf(transactions, earlier) + t.amount)
              /\ repayments' = Append(repayments, r)
              /\ r.tradeline_allocation_id = a
              /\ r.amount = t.amount
              /\ r.status = "scheduled"
              /\ r.payment_date = None
              /\ r.due_date = now + RepaymentTermDays
              /\ Len(ListOf(agent'.credit_score_history)) = Len(History) + 1
              /\ SubSeq(ListOf(agent'.credit_score_history), 1, Len(History))
                     = History]_vars

\* the closing statement of C25 as a property of every state
C25_LatestBalanceIsSum ==
    \A a \in DOMAIN allocations :
        TransactionsOf(a) # {} =>
            LatestTransaction(a)[1].balance_after
                = Some(AmountOf(transactions, TransactionsOf(a)))

\* two accepted transactions on one allocation, the second balance the sum
C25_Witness ==
    /\ Len(transactions) = 2
    /\ transactions[1].tradeline_allocation_id = 1
    /\ transactions[2].tradeline_allocation_id = 1
    /\ transactions[1].amount = 100
    /\ transactions[2].amount = 0 - 50
    /\ transactions[2].balance_after = Some(50)
    /\ Len(repayments) = 2
    /\ Len(History) = 2

\* C26 (as claimed): the running balance of an allocation never exceeds the
\* allocation's credit_limit.
C26_BalanceWithinLimit ==
    \A a \in DOMAIN allocations :
        CurrentBalance(a) <= allocations[a].credit_limit

(***************************************************************************)
(* Claims about DefiRepayment.update_status, checked under                 *)
(* DefiRepaymentSpec.                                                      *)
(***************************************************************************)
StatusRank(status) ==
    IF status = "scheduled" THEN 0 ELSE IF status = "late" THEN 1
    ELSE IF status = "missed" THEN 2 ELSE 3

\* whole days from the due date to now
WholeDaysPast(r) == (now - r.due_date) \div HalfDaysPerDay

\* C27: DefiRepayment.update_status on an unpaid repayment gives 'scheduled'
\* up to the due date, 'late' once the due date has passed and 'missed' once
\* days_overdue() exceeds 30, and the status never moves back as time
\* advances; with a payment date every call gives 'paid', however late the
\* payment was.
C27_OneWayProgression ==
    [][(outcome'.op = "defi_update_status" /\ now' = now) =>
          LET k == outcome'.arg
              before == defi_repayments[k]
              after == defi_repayments'[k]
          IN  /\ after = [before EXCEPT !.status = after.status]
              /\ before.payment_date # None => after.status = "paid"
              /\ before.payment_date = None =>
                     /\ after.status = "scheduled" <=> now <= before.due_date
                     /\ after.status = "late" <=>
                            (now > before.due_date
                                /\ WholeDaysPast(before) <= MissedAfterDays)
                     /\ after.status = "missed" <=>
                            WholeDaysPast(before) > MissedAfterDays
                     /\ StatusRank(after.status) >= StatusRank(before.status)]_vars

\* an unpaid repayment 31 whole days past its due date: missed
C27_Witness ==
    /\ outcome.op = "defi_update_status"
    /\ outcome.result = "missed"
    /\ defi_repayments[outcome.arg].status = "missed"
    /\ defi_repayments[outcome.arg].payment_date = None
    /\ WholeDaysPast(defi_repayments[outcome.arg]) = MissedAfterDays + 1

\* thirty and a half days past the due date the repayment is still late
C27_WitnessStillLate ==
    /\ outcome.op = "defi_update_status"
    /\ outcome.result = "late"
    /\ defi_repayments[outcome.arg].payment_date = None
    /\ now - defi_repayments[outcome.arg].due_date
           = MissedAfterDays * HalfDaysPerDay + 1

\* a payment made more than thirty days after the due date gives paid
C27_WitnessPaidLate ==
    /\ outcome.op = "defi_update_status"
    /\ outcome.result = "paid"
    /\ defi_repayments[outcome.arg].payment_date = Some(63)
    /\ defi_repayments[outcome.arg].due_date = 0

(***************************************************************************)
(* Claims about the collateral of a DefiLoan, checked under DefiLoanSpec.  *)
(***************************************************************************)
\* C28: collateral is liquidated at most once.  A loan changes only when it
\* has collateral that is not yet liquidated; the step sets
\* collateral_liquidated, liquidation_date = now and status 'defaulted', turns
\* the loan's scheduled repayments into missed and leaves every other
\* repayment as it is.  liquidate_collateral returns True exactly in that
\* case and False, changing nothing, otherwise; a liquidated loan never
\* changes again, and is_collateral_sufficient is False for it.
C28_LiquidatedAtMostOnce ==
    [][/\ \A l \in DOMAIN loans :
             /\ loans[l].collateral_liquidated =>
                    /\ loans'[l] = loans[l]
                    /\ \A k \in RepaymentsOfLoan(l) :
                           defi_repayments'[k] = defi_repayments[k]
             /\ loans'[l] # loans[l] =>
                    /\ loans[l].has_collateral
                    /\ ~loans[l].collateral_liquidated
                    /\ loans'[l] = [loans[l] EXCEPT
                                       !.collateral_liquidated = TRUE,
                                       !.liquidation_date = Some(now),
                                       !.status = "defaulted"]
                    /\ \A k \in DOMAIN defi_repayments :
                           defi_repayments'[k] =
                               IF k \in RepaymentsOfLoan(l)
                                      /\ defi_repayments[k].status = "scheduled"
                                   THEN [defi_repayments[k] EXCEPT !.status = "missed"]
                                   ELSE defi_repayments[k]
       /\ defi_repayments' # defi_repayments => loans' # loans
       /\ (outcome'.op = "liquidate_collateral" /\ now' = now) =>
              LET l == outcome'.arg
              IN  /\ outcome'.result = "True" <=>
                         (loans[l].has_collateral /\ ~loans[l].collateral_liquidated)
                  /\ outcome'.result = "True" => loans'[l].collateral_liquidated
                  /\ outcome'.result # "True" =>
                         /\ outcome'.result = "False"
                         /\ loans' = loans
                         /\ defi_repayments' = defi_repayments
       /\ (/\ outcome'.op = "is_collateral_sufficient" /\ now' = now
           /\ loans[outcome'.arg].collateral_liquidated) =>
              outcome'.result = "False"]_vars

\* a second call of liquidate_collateral on a liquidated loan, at a later
\* time: False, the liquidation date still the first one, the scheduled
\* repayment missed and the paid one still paid
C28_Witness ==
    /\ outcome = [op |-> "liquidate_collateral", arg |-> 1, result |-> "False"]
    /\ loans[1].collateral_liquidated
    /\ loans[1].status = "defaulted"
    /\ loans[1].liquidation_date = Some(0)
    /\ now > 0
    /\ defi_repayments[1].status = "missed" /\ defi_repayments[1].due_date = 2
    /\ defi_repayments[2].status = "paid"
    /\ defi_repayments[3].status = "scheduled"

\* is_collateral_sufficient asked of a liquidated loan whose collateral
\* covers the balance
C28_WitnessInsufficient ==
    /\ outcome = [op |-> "is_collateral_sufficient", arg |-> 1, result |-> "False"]
    /\ loans[1].collateral_liquidated
    /\ loans[1].collateral_amount >= CalculateCurrentBalance(1)

(***************************************************************************)
(* Claims about promotion codes, checked under PromoSpec.                  *)
(***************************************************************************)
\* C29: every call of PromoCode.is_valid returns True exactly when the code
\* is active, valid_from has been reached, valid_until (when set) has not
\* passed, and current_uses < max_uses (when max_uses is set).
C29_IsValidExactly ==
    [][outcome'.op = "is_valid" /\ now' = now /\ promo_codes' = promo_codes =>
          LET code == promo_codes[outcome'.arg] IN
          (outcome'.result = "True") <=>
              /\ code.is_active
              /\ code.valid_from <= now
              /\ (code.valid_until = None \/ now <= code.valid_until[1])
              /\ (code.max_uses = None \/ code.current_uses < code.max_uses[1])]_vars

\* the part of C29 that follows from the three tests is_valid does make: a
\* code incremented only by the rental route never exceeds max_uses
C29_UsesWithinMax ==
    \A c \in DOMAIN promo_codes :
        promo_codes[c].max_uses # None =>
            promo_codes[c].current_uses <= promo_codes[c].max_uses[1]

\* the rental route increments a code by one, and only a code that passes
\* is_valid; apply_discount returns the original price for a code that fails it
C29_InvalidKeepsPrice ==
    [][/\ \A c \in DOMAIN promo_codes :
             \/ promo_codes'[c] = promo_codes[c]
             \/ /\ IsValid(promo_codes[c])
                /\ promo_codes'[c] =
                       [promo_codes[c] EXCEPT !.current_uses = @ + 1]
       /\ (/\ outcome'.op = "apply_discount"
           /\ now' = now
           /\ promo_codes' = promo_codes
           /\ ~IsValid(promo_codes[outcome'.arg]))
          => outcome'.price = Num(outcome'.original_price)]_vars

\* is_valid has answered True for a code whose valid_from lies in the future
C29_ValidBeforeStart ==
    /\ outcome.op = "is_valid"
    /\ outcome.result = "True"
    /\ promo_codes[outcome.arg].valid_from > now

(***************************************************************************)
(* Claims about purchases, checked under PurchaseSpec.                     *)
(***************************************************************************)
SalesOf(tradeline_id) ==
    {i \in DOMAIN purchases :
        purchases[i].tradeline_id = tradeline_id /\ ~purchases[i].is_rental}

\* C30: a tradeline has at most one purchase record, whether the purchase
\* requests come one after the other or concurrently.
C30_PurchasedAtMostOnce ==
    \A tradeline_id \in DOMAIN tradelines : Cardinality(SalesOf(tradeline_id)) <= 1

\* the part of C30 that holds: a purchase record is created only by a request
\* whose loaded row is for sale and whose user is not the owner, and the same
\* step stores is_for_sale = False; a request that loads the row after that
\* step is rejected
C30_PurchaseStep ==
    [][purchases' # purchases =>
          \E user \in Users :
             LET tradeline == sessions[user].row[1]
                 tradeline_id == sessions[user].tradeline_id
             IN  /\ sessions[user].pc = "loaded"
                 /\ tradeline.is_for_sale
                 /\ tradeline.owner_id # user
                 /\ Len(purchases') = Len(purchases) + 1
                 /\ SubSeq(purchases', 1, Len(purchases)) = purchases
                 /\ purchases'[Len(purchases')].tradeline_id = tradeline_id
                 /\ purchases'[Len(purchases')].purchaser_id = user
                 /\ ~tradelines'[tradeline_id].is_for_sale]_vars

\* two buyers hold a purchase record of the same tradeline
C30_SoldTwice ==
    \E i, j \in DOMAIN purchases :
        /\ i # j
        /\ purchases[i].tradeline_id = purchases[j].tradeline_id
        /\ purchases[i].purchaser_id # purchases[j].purchaser_id
        /\ ~tradelines[purchases[i].tradeline_id].is_for_sale

====
